---- MODULE Spec2Model ----
(***************************************************************************)
(* State-machine model of the query pipeline of the Axiom RAG backend:     *)
(* intent classification, routing, retrieval, grading, generation, the     *)
(* groundedness check with its retry loop, the conversation memory, and    *)
(* the event stream of RAGPipeline.astream.                                *)
(*                                                                         *)
(* Conventions.  A question is the sequence of its characters.  Any other  *)
(* text (an answer, a model reply) is the sequence of its pieces (words    *)
(* or streamed chunks).  Scores and confidences are integers in            *)
(* hundredths (0.85 is 85, 70% is 70).  The outcome of a call to a         *)
(* collaborator (memory store, language model, embedding model, vector     *)
(* store, reranker) is a record [ok |-> TRUE, val |-> v] or                *)
(* [ok |-> FALSE] when the call raises.                                    *)
(***************************************************************************)
EXTENDS Integers, Sequences, FiniteSets, TLC

VARIABLES
    state,        \* the RAGState dict threaded through the nodes
    node,         \* aquery: the graph node that runs next ("END", "RAISED" when over)
    history,      \* the memory store's turns of the session, oldest first
    model_calls,  \* the calls made to the embedding and language models, in order
    pc,           \* astream: the position of the generator
    events,       \* astream: the events yielded so far
    pending,      \* astream: the words of a pre-built answer still to be yielded
    full_answer,  \* astream: the tokens of the model accumulated so far
    received,     \* astream: the number of chunks the model has sent
    _indices,     \* HybridRetriever._indices: collection name -> BM25Index
    last_op,      \* the last operation on the lexical index and what it changed
    fusion,       \* _rrf_fusion: the two ranked lists given and the fused result
    search,       \* HybridRetriever.search: the call in progress and what it read
    tasks         \* the tasks running side by side on the event loop: name -> position and locals

stream_vars == <<pc, events, pending, full_answer, received>>
retriever_vars == <<_indices, last_op, fusion, search>>
vars == <<state, node, history, model_calls, stream_vars, retriever_vars, tasks>>

\* The retriever before any index is built and any fusion is run.
EmptyIndices == [c \in {} |-> <<>>]
NoOperation == [op |-> "none"]
NoFusion == [called |-> FALSE]
NoSearch == [at |-> "idle"]
NoTasks == [t \in {} |-> <<>>]
RetrieverIdle ==
    /\ _indices = EmptyIndices
    /\ last_op = NoOperation
    /\ fusion = NoFusion
    /\ search = NoSearch
    /\ tasks = NoTasks

\* Python's None for string-valued fields, and for text-valued fields.
None == "None"
NoneText == <<"<None>">>

Ok(v) == [ok |-> TRUE, val |-> v]
Raised == [ok |-> FALSE]

Range(s) == {s[i] : i \in 1..Len(s)}

\* Number of elements of s that satisfy the test.
CountIn(s, Test(_)) == Cardinality({i \in 1..Len(s) : Test(s[i])})

(***************************************************************************)
(* Characters and Python's string operations                               *)
(***************************************************************************)
LowerLetters == <<"a", "b", "c", "d", "e", "f", "g", "h", "i", "j", "k", "l", "m",
                  "n", "o", "p", "q", "r", "s", "t", "u", "v", "w", "x", "y", "z">>
UpperLetters == <<"A", "B", "C", "D", "E", "F", "G", "H", "I", "J", "K", "L", "M",
                  "N", "O", "P", "Q", "R", "S", "T", "U", "V", "W", "X", "Y", "Z">>
Digits == {"0", "1", "2", "3", "4", "5", "6", "7", "8", "9"}

IsLower(c) == c \in Range(LowerLetters)
IsUpper(c) == c \in Range(UpperLetters)
\* str.isalpha on one character
IsAlpha(c) == IsLower(c) \/ IsUpper(c)
\* the regular expression class \w
IsWordChar(c) == IsAlpha(c) \/ c \in Digits \/ c = "_"
IsSpace(c) == c = " "

LowerChar(c) ==
    IF IsUpper(c)
    THEN LowerLetters[CHOOSE i \in 1..Len(UpperLetters) : UpperLetters[i] = c]
    ELSE c
\* str.lower
Lower(s) == [i \in 1..Len(s) |-> LowerChar(s[i])]

RECURSIVE LStrip(_)
LStrip(s) == IF s # <<>> /\ IsSpace(Head(s)) THEN LStrip(Tail(s)) ELSE s
RECURSIVE RStrip(_)
RStrip(s) ==
    IF s # <<>> /\ IsSpace(s[Len(s)]) THEN RStrip(SubSeq(s, 1, Len(s) - 1)) ELSE s
\* str.strip
Strip(s) == RStrip(LStrip(s))

\* pat in s
Contains(s, pat) ==
    \E i \in 1..(Len(s) - Len(pat) + 1) : SubSeq(s, i, i + Len(pat) - 1) = pat

\* s.count(c) for a single character c
CountChar(s, c) == Cardinality({i \in 1..Len(s) : s[i] = c})

\* re.findall(r'\b[a-z]+\b', s): the maximal runs of word characters that
\* consist of lower-case letters only.
RECURSIVE TokensFrom(_, _, _)
TokensFrom(s, i, cur) ==
    IF i > Len(s) THEN (IF cur = <<>> THEN <<>> ELSE <<cur>>)
    ELSE IF IsWordChar(s[i]) THEN TokensFrom(s, i + 1, Append(cur, s[i]))
    ELSE (IF cur = <<>> THEN <<>> ELSE <<cur>>) \o TokensFrom(s, i + 1, <<>>)

AllLower(w) == \A i \in 1..Len(w) : IsLower(w[i])
FindWords(s) == SelectSeq(TokensFrom(s, 1, <<>>), AllLower)

(***************************************************************************)
(* Intent router, layer 0: hard rules                                      *)
(***************************************************************************)
STOPWORD_SET == {
    <<"t", "h", "e">>, <<"a">>, <<"a", "n">>, <<"i", "s">>, <<"a", "r", "e">>,
    <<"w", "a", "s">>, <<"w", "e", "r", "e">>, <<"b", "e">>, <<"b", "e", "e", "n">>,
    <<"b", "e", "i", "n", "g">>, <<"h", "a", "v", "e">>, <<"h", "a", "s">>, <<"h", "a", "d">>,
    <<"d", "o">>, <<"d", "o", "e", "s">>, <<"d", "i", "d">>, <<"w", "i", "l", "l">>,
    <<"w", "o", "u", "l", "d">>, <<"c", "o", "u", "l", "d">>, <<"s", "h", "o", "u", "l", "d">>,
    <<"m", "a", "y">>, <<"m", "i", "g", "h", "t">>, <<"m", "u", "s", "t">>,
    <<"s", "h", "a", "l", "l">>, <<"c", "a", "n">>, <<"n", "e", "e", "d">>, <<"t", "o">>,
    <<"o", "f">>, <<"i", "n">>, <<"f", "o", "r">>, <<"o", "n">>, <<"w", "i", "t", "h">>,
    <<"a", "t">>, <<"b", "y">>, <<"f", "r", "o", "m">>, <<"a", "s">>, <<"i", "n", "t", "o">>,
    <<"t", "h", "r", "o", "u", "g", "h">>, <<"a", "n", "d">>, <<"b", "u", "t">>, <<"i", "f">>,
    <<"o", "r">>, <<"b", "e", "c", "a", "u", "s", "e">>, <<"u", "n", "t", "i", "l">>,
    <<"w", "h", "i", "l", "e">>, <<"t", "h", "i", "s">>, <<"t", "h", "a", "t">>,
    <<"t", "h", "e", "s", "e">>, <<"t", "h", "o", "s", "e">>, <<"i", "t">>, <<"i", "t", "s">>,
    <<"w", "h", "a", "t">>, <<"w", "h", "i", "c", "h">>, <<"w", "h", "o">>,
    <<"w", "h", "o", "m">>, <<"h", "o", "w">>, <<"w", "h", "e", "n">>,
    <<"w", "h", "e", "r", "e">>, <<"w", "h", "y">>, <<"i">>, <<"m", "e">>, <<"m", "y">>,
    <<"y", "o", "u">>, <<"y", "o", "u", "r">>, <<"h", "e">>, <<"s", "h", "e">>,
    <<"t", "h", "e", "y">>, <<"t", "h", "e", "m">>, <<"w", "e">>, <<"o", "u", "r">>,
    <<"t", "h", "e", "r", "e">>, <<"h", "e", "r", "e">>
}

IsStopword(w) == w \in STOPWORD_SET

NoResult == <<>>

\* More than 90% of the words are stopwords (stopword_count / len(words) > 0.9).
StopwordHeavy(words) == 10 * CountIn(words, IsStopword) > 9 * Len(words)

\* Mutant: layer 0 decides nothing.
layer0_hard_rules_off(query) == NoResult

layer0_hard_rules(query) ==
    LET q == Strip(query)
        query_lower == Lower(q)
        alpha_count == CountIn(q, IsAlpha)
        words == FindWords(query_lower)
        unique_chars == Cardinality(Range(query_lower) \ {" "})
    IN  IF Len(q) <= 1 THEN <<"garbage", 100>>
        ELSE IF ~ \E i \in 1..Len(q) : IsAlpha(q[i]) THEN <<"garbage", 100>>
        ELSE IF alpha_count < 2 /\ Len(q) > 2 THEN <<"garbage", 100>>
        ELSE IF words # <<>> /\ StopwordHeavy(words) /\ Len(words) <= 5
             THEN <<"garbage", 95>>
        ELSE IF Len(q) >= 4 /\ unique_chars <= 2 THEN <<"garbage", 95>>
        ELSE NoResult

(***************************************************************************)
(* Intent router, layers 1 and 2                                           *)
(***************************************************************************)
ExemplarIntents == {"greeting", "gratitude", "followup", "simplify", "deepen", "command"}

\* What the embedding model makes of a query: the bank of the best exemplar
\* and its cosine similarity; "unavailable" when FastEmbed cannot be
\* initialised; Raised when embedding the query raises.
SemanticOutcomes ==
    {Ok([available |-> TRUE, intent |-> i, score |-> 90]) : i \in ExemplarIntents}
        \cup {Ok([available |-> TRUE, intent |-> "greeting", score |-> 80]),
              Ok([available |-> FALSE, intent |-> None, score |-> 0]),
              Raised}

\* SemanticRouter.classify after the embedding: NoResult falls through to layer 2.
SemanticRouter_classify(sem) ==
    IF ~sem.val.available THEN NoResult
    ELSE IF sem.val.score >= 85 THEN <<sem.val.intent, sem.val.score>>
    ELSE NoResult

\* intent_map of layer2_llm, in the order the keys are tried.
intent_map == <<
    <<"QUESTION", "question">>, <<"GREETING", "greeting">>,
    <<"GRATITUDE", "gratitude">>, <<"FOLLOWUP", "followup">>,
    <<"SIMPLIFY", "simplify">>, <<"DEEPEN", "deepen">>, <<"COMMAND", "command">>,
    <<"GARBAGE", "garbage">>, <<"OFF_TOPIC", "off_topic">>,
    <<"CLARIFY_NEEDED", "clarify_needed">> >>

\* The model's reply to the classification prompt, as the set of category
\* names the upper-cased reply contains; Raised when the call raises.
LlmIntentReplies ==
    {Ok({intent_map[i][1]}) : i \in 1..Len(intent_map)}
        \cup {Ok({}), Ok({"GREETING", "QUESTION"}), Raised}

layer2_llm(reply) ==
    IF ~reply.ok THEN <<"question", 30>>
    ELSE LET hits == {i \in 1..Len(intent_map) : intent_map[i][1] \in reply.val}
         IN  IF hits = {} THEN <<"question", 50>>
             ELSE <<intent_map[CHOOSE i \in hits : \A j \in hits : i <= j][2], 70>>

\* IntentRouter.classify reaches layer 1 / layer 2 for this query.
ReachesLayer1(query) == layer0_hard_rules(query) = NoResult
ReachesLayer2(query, sem) ==
    ReachesLayer1(query) /\ sem.ok /\ SemanticRouter_classify(sem) = NoResult

\* IntentRouter.classify: (intent, confidence), or Raised when layer 1 raises.
IntentRouter_classify(query, sem, reply) ==
    LET r0 == layer0_hard_rules(query)
    IN  IF r0 # NoResult THEN Ok(r0)
        ELSE IF ~sem.ok THEN Raised
        ELSE LET r1 == SemanticRouter_classify(sem)
             IN  IF r1 # NoResult THEN Ok(r1) ELSE Ok(layer2_llm(reply))

(***************************************************************************)
(* Conversation memory                                                     *)
(***************************************************************************)
\* A source entry as grade_documents builds it.
Source(filename, score) == [source |-> filename, relevance_score |-> score]

\* A stored turn.  add_message stores the metadata only when it is given
\* (save_to_memory gives {"sources": ...} with the assistant turn).
NoMetadata == [present |-> FALSE, sources |-> <<>>]
UserTurn(content) == [role |-> "user", content |-> content, metadata |-> NoMetadata]
AssistantTurn(content, sources) ==
    [role |-> "assistant", content |-> content,
     metadata |-> [present |-> TRUE, sources |-> sources]]

\* memory.get_history(session_id, limit): the last `limit` turns, oldest first.
get_history(turns, limit) ==
    IF Len(turns) <= limit THEN turns
    ELSE SubSeq(turns, Len(turns) - limit + 1, Len(turns))

\* The same call as a collaborator outcome: it may raise.
ReadHistory(turns, limit, ok) == IF ok THEN Ok(get_history(turns, limit)) ELSE Raised

(***************************************************************************)
(* Intent handlers                                                         *)
(***************************************************************************)
GREETING_ANSWER ==
    <<"Hello!", "How", "can", "I", "help", "you", "with", "your", "documents", "today?">>
GRATITUDE_ANSWER ==
    <<"You're", "welcome!", "Feel", "free", "to", "ask", "if", "you", "have", "more",
      "questions", "about", "your", "documents.">>
GARBAGE_ANSWER ==
    <<"I", "didn't", "quite", "understand", "that.", "Could", "you", "rephrase", "your",
      "question", "about", "the", "documents?">>
OFF_TOPIC_ANSWER ==
    <<"I'm", "designed", "to", "help", "you", "with", "questions", "about", "your",
      "uploaded", "documents.", "Is", "there", "something", "specific", "in", "your",
      "documents", "you'd", "like", "to", "know", "about?">>
FOLLOWUP_ERROR_ANSWER ==
    <<"I'd", "like", "to", "tell", "you", "more,", "but", "I", "encountered", "an",
      "issue.", "Could", "you", "ask", "a", "specific", "question", "instead?">>
SIMPLIFY_ERROR_ANSWER ==
    <<"I'd", "like", "to", "simplify", "that,", "but", "I", "encountered", "an", "issue.",
      "Could", "you", "ask", "your", "question", "again?">>
DEEPEN_ERROR_ANSWER ==
    <<"I'd", "like", "to", "go", "deeper", "on", "that,", "but", "I", "encountered", "an",
      "issue.", "Could", "you", "ask", "a", "more", "specific", "question?">>
NO_CONTEXT_ANSWER ==
    <<"I", "don't", "have", "a", "previous", "answer", "to", "work", "with.", "Could",
      "you", "ask", "a", "specific", "question", "about", "your", "documents", "first?">>
GARBAGE_QUERY_ANSWER ==
    <<"I'm", "not", "sure", "I", "understand", "your", "question.", "Could", "you",
      "please", "rephrase", "it", "or", "ask", "something", "about", "the", "documents?">>

HandlerResult(answer, handler_used, needs_rag_flag, sources) ==
    [answer |-> answer, handler_used |-> handler_used,
     needs_rag |-> needs_rag_flag, sources |-> sources]

handle_greeting == HandlerResult(GREETING_ANSWER, "handle_greeting", FALSE, <<>>)
handle_gratitude == HandlerResult(GRATITUDE_ANSWER, "handle_gratitude", FALSE, <<>>)
handle_garbage == HandlerResult(GARBAGE_ANSWER, "handle_garbage", FALSE, <<>>)
handle_off_topic == HandlerResult(OFF_TOPIC_ANSWER, "handle_off_topic", FALSE, <<>>)

simple_handlers == {"greeting", "gratitude", "garbage", "off_topic"}
context_handlers == {"followup", "simplify", "deepen"}

EmptyContext == [last_question |-> NoneText, last_answer |-> NoneText, last_sources |-> <<>>]

\* bool(x) of an Optional[str]
Truthy(text) == text # NoneText /\ text # <<>>

\* Mutant: the loop tests `not context["last_answer"]`, so that an older
\* answer with content replaces a newer empty one.
RECURSIVE ContextWalkTruthy(_, _, _)
ContextWalkTruthy(turns, i, ctx) ==
    IF i < 1 THEN ctx
    ELSE LET msg == turns[i]
             ctx1 ==
                 IF msg.role = "assistant" /\ ctx.last_answer \in {NoneText, <<>>}
                 THEN [ctx EXCEPT !.last_answer = msg.content,
                                  !.last_sources = IF msg.metadata.present
                                                   THEN msg.metadata.sources
                                                   ELSE ctx.last_sources]
                 ELSE IF msg.role = "user" /\ ctx.last_question = NoneText
                 THEN [ctx EXCEPT !.last_question = msg.content]
                 ELSE ctx
         IN  IF ctx1.last_answer \notin {NoneText, <<>>}
                    /\ ctx1.last_question \notin {NoneText, <<>>}
             THEN ctx1
             ELSE ContextWalkTruthy(turns, i - 1, ctx1)

\* The loop of _get_conversation_context over reversed(history), from turn i down.
RECURSIVE ContextWalk(_, _, _)
ContextWalk(turns, i, ctx) ==
    IF i < 1 THEN ctx
    ELSE LET msg == turns[i]
             ctx1 ==
                 IF msg.role = "assistant" /\ ctx.last_answer = NoneText
                 THEN [ctx EXCEPT !.last_answer = msg.content,
                                  !.last_sources = IF msg.metadata.present
                                                   THEN msg.metadata.sources
                                                   ELSE ctx.last_sources]
                 ELSE IF msg.role = "user" /\ ctx.last_question = NoneText
                 THEN [ctx EXCEPT !.last_question = msg.content]
                 ELSE ctx
         IN  IF Truthy(ctx1.last_answer) /\ Truthy(ctx1.last_question) THEN ctx1
             ELSE ContextWalk(turns, i - 1, ctx1)

\* Mutant: _get_conversation_context with the loop above.
_get_conversation_context_truthy(read) ==
    IF ~read.ok THEN EmptyContext
    ELSE IF read.val = <<>> THEN EmptyContext
    ELSE ContextWalkTruthy(read.val, Len(read.val), EmptyContext)

\* read: the outcome of memory.get_history(session_id, limit=4)
_get_conversation_context(read) ==
    IF ~read.ok THEN EmptyContext
    ELSE IF read.val = <<>> THEN EmptyContext
    ELSE ContextWalk(read.val, Len(read.val), EmptyContext)

HandlerErrorAnswer(intent) ==
    CASE intent = "followup" -> FOLLOWUP_ERROR_ANSWER
      [] intent = "simplify" -> SIMPLIFY_ERROR_ANSWER
      [] intent = "deepen" -> DEEPEN_ERROR_ANSWER

\* handle_followup, handle_simplify and handle_deepen differ in the prompt and
\* in the strings only.  reply: the outcome of llm.ainvoke(prompt).
ContextHandler(intent, read, reply) ==
    LET context == _get_conversation_context(read)
        name == IF intent = "followup" THEN "handle_followup"
                ELSE IF intent = "simplify" THEN "handle_simplify"
                ELSE "handle_deepen"
    IN  IF ~Truthy(context.last_answer)
        THEN HandlerResult(<<>>, name, TRUE, <<>>)
        ELSE IF reply.ok
        THEN HandlerResult(reply.val, name, FALSE, context.last_sources)
        ELSE HandlerResult(HandlerErrorAnswer(intent),
                           IF intent = "followup" THEN "handle_followup_error"
                           ELSE IF intent = "simplify" THEN "handle_simplify_error"
                           ELSE "handle_deepen_error",
                           FALSE, <<>>)

\* The context handler calls the model: it found a previous answer.
HandlerCallsLlm(intent, read) ==
    intent \in context_handlers /\ Truthy(_get_conversation_context(read).last_answer)

\* The pipeline always passes a memory store and a model (RAGPipeline.__init__),
\* so the "called without memory/llm" branch is not taken from the pipeline.
dispatch_intent_handler(intent, read, reply) ==
    IF intent = "greeting" THEN handle_greeting
    ELSE IF intent = "gratitude" THEN handle_gratitude
    ELSE IF intent = "garbage" THEN handle_garbage
    ELSE IF intent = "off_topic" THEN handle_off_topic
    ELSE IF intent \in context_handlers THEN ContextHandler(intent, read, reply)
    ELSE HandlerResult(<<>>, "unknown_intent", TRUE, <<>>)

(***************************************************************************)
(* Pipeline state                                                          *)
(***************************************************************************)
\* settings.max_retries has no validator: any integer can be configured.
\* The model takes 0..MaxRetriesBound.
MaxRetriesBound == 2

create_initial_state(question, max_iterations) ==
    [question |-> question,
     detected_intent |-> None,
     intent_confidence |-> 0,
     query_complexity |-> None,
     skip_rewrite |-> FALSE,
     is_summarization |-> FALSE,
     rewritten_query |-> None,
     retrieved_documents |-> <<>>,
     relevant_documents |-> <<>>,
     collection_empty |-> FALSE,
     answer |-> NoneText,
     sources |-> <<>>,
     is_grounded |-> FALSE,
     groundedness_score |-> 0,
     hallucination_details |-> None,
     fast_groundedness_score |-> 0,
     skip_llm_hallucination_check |-> FALSE,
     iteration |-> 0,
     max_iterations |-> max_iterations,
     rewrite_count |-> 0,
     processing_steps |-> <<>>]

\* LangGraph merges a node's result into the state: processing_steps is
\* Annotated[list, add] (appended), every other key is overwritten.
GraphMerge(st, result) ==
    [f \in DOMAIN st |->
        IF f \in DOMAIN result
        THEN (IF f = "processing_steps" THEN st[f] \o result[f] ELSE result[f])
        ELSE st[f]]

\* astream keeps a plain dict and calls state.update(result): every key of
\* the result, processing_steps included, is overwritten.
DictUpdate(st, result) ==
    [f \in DOMAIN st |-> IF f \in DOMAIN result THEN result[f] ELSE st[f]]

(***************************************************************************)
(* Nodes: classification and the non-retrieval handlers                    *)
(***************************************************************************)
conversation_intents == {"followup", "simplify", "deepen"}

\* Mutant: a conversation intent is kept whatever the history holds.
classify_intent_no_override(st, cls, probe) ==
    [detected_intent |-> cls[1],
     intent_confidence |-> cls[2],
     processing_steps |-> <<"classify_intent">>]

\* cls: the (intent, confidence) returned by IntentRouter.classify;
\* probe: the outcome of memory.get_history(session_id, limit=1), read only
\* for a conversation intent.  _get_intent_router cannot fail here: the
\* router module imports the standard library only.
classify_intent(st, cls, probe) ==
    LET has_history == probe.ok /\ Len(probe.val) > 0
        override == cls[1] \in conversation_intents /\ ~has_history
    IN  [detected_intent |-> IF override THEN "question" ELSE cls[1],
         intent_confidence |-> IF override THEN 100 ELSE cls[2],
         processing_steps |-> <<"classify_intent">>]

NoContextStep(handler_used) ==
    CASE handler_used = "handle_followup" -> "handle_followup_no_context"
      [] handler_used = "handle_simplify" -> "handle_simplify_no_context"
      [] handler_used = "handle_deepen" -> "handle_deepen_no_context"
      [] OTHER -> "unknown_intent_no_context"

\* Mutant: the handler's answer is returned without the groundedness keys.
handle_non_rag_intent_ungrounded(st, read, reply) ==
    LET result == dispatch_intent_handler(st.detected_intent, read, reply)
    IN  [answer |-> IF result.needs_rag THEN NO_CONTEXT_ANSWER ELSE result.answer,
         sources |-> IF result.needs_rag THEN <<>> ELSE result.sources,
         processing_steps |-> <<IF result.needs_rag
                                THEN NoContextStep(result.handler_used)
                                ELSE result.handler_used>>]

\* read: the outcome of memory.get_history(session_id, limit=4);
\* reply: the outcome of llm.ainvoke(prompt), stripped.
handle_non_rag_intent(st, read, reply) ==
    LET result == dispatch_intent_handler(st.detected_intent, read, reply)
    IN  IF result.needs_rag
        THEN [answer |-> NO_CONTEXT_ANSWER,
              sources |-> <<>>,
              is_grounded |-> TRUE,
              groundedness_score |-> 100,
              processing_steps |-> <<NoContextStep(result.handler_used)>>]
        ELSE [answer |-> result.answer,
              sources |-> result.sources,
              is_grounded |-> TRUE,
              groundedness_score |-> 100,
              processing_steps |-> <<result.handler_used>>]

handle_garbage_query(st) ==
    [answer |-> GARBAGE_QUERY_ANSWER,
     sources |-> <<>>,
     is_grounded |-> TRUE,
     groundedness_score |-> 100,
     processing_steps |-> <<"handle_garbage_query">>]

(***************************************************************************)
(* Nodes: router and rewriter                                              *)
(***************************************************************************)
complex_patterns == {
    <<"c", "o", "m", "p", "a", "r", "e">>,
    <<"c", "o", "n", "t", "r", "a", "s", "t">>,
    <<"v", "s">>,
    <<"d", "i", "f", "f", "e", "r", "e", "n", "c", "e">> }

route_query(st) ==
    LET question == Lower(st.question)
        is_complex == (\E p \in complex_patterns : Contains(question, p))
                          \/ CountChar(question, "?") > 1
    IN  [query_complexity |-> IF is_complex THEN "complex" ELSE "simple",
         skip_rewrite |-> ~is_complex,
         processing_steps |-> <<"route_query_fast">>]

\* reply: the text returned by llm.ainvoke(QUERY_REWRITE_PROMPT), stripped.
rewrite_query(st, reply) ==
    [rewritten_query |-> reply,
     rewrite_count |-> st.rewrite_count + 1,
     processing_steps |-> <<"query_rewrite">>]

(***************************************************************************)
(* Sorting as Python's list.sort(reverse=True): stable, descending         *)
(***************************************************************************)
\* Insert index i into the index list order, after every index whose key is
\* greater than or equal to keys[i].
RECURSIVE InsertDesc(_, _, _)
InsertDesc(order, keys, i) ==
    IF order = <<>> THEN <<i>>
    ELSE IF keys[Head(order)] >= keys[i]
         THEN <<Head(order)>> \o InsertDesc(Tail(order), keys, i)
         ELSE <<i>> \o order

RECURSIVE SortedPrefix(_, _)
SortedPrefix(keys, n) ==
    IF n = 0 THEN <<>> ELSE InsertDesc(SortedPrefix(keys, n - 1), keys, n)

\* The indices of keys, by key descending, equal keys in their given order.
SortedIndicesDesc(keys) == SortedPrefix(keys, Len(keys))

Take(s, k) == IF Len(s) <= k THEN s ELSE SubSeq(s, 1, k)

(***************************************************************************)
(* Nodes: retrieval                                                        *)
(***************************************************************************)
\* A retrieved chunk with its retrieval score (in hundredths); parent_id is
\* None for a chunk without parent.
Hit(source, parent_id, score) ==
    [source |-> source, parent_id |-> parent_id, score |-> score]

\* RAGNodes._expand_to_parents: the first chunk of each parent, then the
\* chunks without parent, sorted by score descending.
RECURSIVE FirstOfParents(_, _)
FirstOfParents(hits, seen) ==
    IF hits = <<>> THEN <<>>
    ELSE LET h == Head(hits)
         IN  IF h.parent_id = None \/ h.parent_id \in seen
             THEN FirstOfParents(Tail(hits), seen)
             ELSE <<h>> \o FirstOfParents(Tail(hits), seen \cup {h.parent_id})

HasNoParent(h) == h.parent_id = None

_expand_to_parents(results) ==
    LET all_docs == FirstOfParents(results, {}) \o SelectSeq(results, HasNoParent)
        order == SortedIndicesDesc([i \in 1..Len(all_docs) |-> all_docs[i].score])
    IN  [i \in 1..Len(all_docs) |-> all_docs[order[i]]]

\* A document of the state: float(score) * 100 is the score in hundredths.
StateDocument(hit) ==
    [source |-> hit.source, parent_id |-> hit.parent_id, relevance_score |-> hit.score]

\* hybrid: the outcome of search_with_parent_expansion; vector: the outcome
\* of the vector-only search (read when the hybrid results are empty);
\* info: the outcome of get_collection_info, as [exists, count].
retrieve(st, hybrid, vector, info) ==
    LET hybrid_results == IF hybrid.ok THEN hybrid.val ELSE <<>>
        results == IF hybrid_results # <<>> THEN hybrid_results
                   ELSE IF vector.ok THEN _expand_to_parents(vector.val)
                   ELSE <<>>
        collection_empty ==
            results = <<>> /\ info.ok /\ (~info.val.exists \/ info.val.count = 0)
    IN  [retrieved_documents |-> [i \in 1..Len(results) |-> StateDocument(results[i])],
         collection_empty |-> collection_empty,
         processing_steps |-> <<"retrieve_hybrid">>]

(***************************************************************************)
(* Nodes: grading (context filter, cross-encoder reranker, fallback)       *)
(***************************************************************************)
retrieval_final_k == 5
relevance_threshold == 30

SeqMin(s) == CHOOSE x \in Range(s) : \A y \in Range(s) : x <= y
SeqMax(s) == CHOOSE x \in Range(s) : \A y \in Range(s) : x >= y

\* 1 / (1 + exp(-x)) in hundredths, for the logits of the model.
Sigmoid(x) == CASE x = -1 -> 27 [] x = 0 -> 50 [] x = 1 -> 73

\* Mutant: every batch is scored with the sigmoid, as a single document is.
predict_sigmoid(logits) ==
    [i \in 1..Len(logits) |-> Sigmoid(logits[i])]

\* CrossEncoderReranker.predict: min-max normalisation over a batch of more
\* than one score, the sigmoid for a single one.
predict(logits) ==
    IF Len(logits) > 1
    THEN LET lo == SeqMin(logits)
             hi == SeqMax(logits)
         IN  IF hi > lo
             THEN [i \in 1..Len(logits) |-> ((logits[i] - lo) * 100) \div (hi - lo)]
             ELSE [i \in 1..Len(logits) |-> 50]
    ELSE [i \in 1..Len(logits) |-> Sigmoid(logits[i])]

\* CrossEncoderReranker.rerank: (original index, score) by score descending.
rerank(logits, top_k) ==
    IF logits = <<>> THEN <<>>
    ELSE LET scores == predict(logits)
             order == SortedIndicesDesc(scores)
         IN  Take([i \in 1..Len(order) |-> <<order[i], scores[order[i]]>>], top_k)

\* sources_by_file[filename] = {...} unless the file is there with a score
\* at least as high; a dict keeps the position of a key that is overwritten.
AddSource(sources, filename, score) ==
    IF \E i \in 1..Len(sources) : sources[i].source = filename
    THEN [i \in 1..Len(sources) |->
             IF sources[i].source = filename /\ score > sources[i].relevance_score
             THEN Source(filename, score)
             ELSE sources[i]]
    ELSE Append(sources, Source(filename, score))

RECURSIVE SourcesOf(_, _)
SourcesOf(docs, sources) ==
    IF docs = <<>> THEN sources
    ELSE SourcesOf(Tail(docs),
                   AddSource(sources, Head(docs).source, Head(docs).relevance_score))

\* The fallback loop: keep a document if its score reaches the threshold or
\* nothing has been kept yet.
RECURSIVE ThresholdKeep(_, _, _)
ThresholdKeep(docs, threshold, kept) ==
    IF docs = <<>> THEN kept
    ELSE ThresholdKeep(Tail(docs), threshold,
                       IF Head(docs).relevance_score >= threshold \/ kept = <<>>
                       THEN Append(kept, Head(docs))
                       ELSE kept)

\* The elements of s at the indices of the set idx, in order.
RECURSIVE IndicesIn(_, _)
IndicesIn(n, idx) ==
    IF n = 0 THEN <<>>
    ELSE IndicesIn(n - 1, idx) \o (IF n \in idx THEN <<n>> ELSE <<>>)

\* grade_documents without the adaptive K: the configured K for every query.
FinalKConfigured(st) == retrieval_final_k

FinalK(st) == IF st.query_complexity = "simple" THEN 2 ELSE retrieval_final_k

\* keep: the outcome of the context filter, the set of indices it keeps;
\* scored: the outcome of the reranker, the logit of each retrieved document
\* (Raised also when no reranker could be created).
grade_documents(st, keep, scored) ==
    IF st.retrieved_documents = <<>>
    THEN [relevant_documents |-> <<>>,
          sources |-> <<>>,
          processing_steps |-> <<"grade_empty">>]
    ELSE
    LET final_k == FinalK(st)
        retrieved == st.retrieved_documents
        kept == IF keep.ok THEN IndicesIn(Len(retrieved), keep.val)
                ELSE [i \in 1..Len(retrieved) |-> i]
        docs_to_grade == [i \in 1..Len(kept) |-> retrieved[kept[i]]]
    IN  IF scored.ok /\ docs_to_grade # <<>>
        THEN LET reranked == rerank([i \in 1..Len(kept) |-> scored.val[kept[i]]], final_k)
                 relevant_documents ==
                     [i \in 1..Len(reranked) |->
                         [docs_to_grade[reranked[i][1]]
                             EXCEPT !.relevance_score = reranked[i][2]]]
             IN  [relevant_documents |-> relevant_documents,
                  sources |-> SourcesOf(relevant_documents, <<>>),
                  processing_steps |-> <<"grade_context_filter", "grade_reranker">>]
        ELSE LET order == SortedIndicesDesc(
                              [i \in 1..Len(docs_to_grade) |->
                                  docs_to_grade[i].relevance_score])
                 sorted_docs ==
                     Take([i \in 1..Len(order) |-> docs_to_grade[order[i]]], final_k)
                 relevant_documents ==
                     ThresholdKeep(sorted_docs, relevance_threshold, <<>>)
             IN  [relevant_documents |-> relevant_documents,
                  sources |-> SourcesOf(relevant_documents, <<>>),
                  processing_steps |-> <<"grade_context_filter", "grade_threshold">>]

(***************************************************************************)
(* Nodes: generation and the groundedness check                            *)
(***************************************************************************)
\* The prompt generate formats: the retry prompt once a check has run.
GenerationPrompt(st) ==
    IF st.iteration > 0 THEN "GENERATION_WITH_RETRY_PROMPT" ELSE "GENERATION_PROMPT"

\* reply: the text returned by llm.ainvoke(prompt), stripped.
generate(st, reply) ==
    [answer |-> reply, processing_steps |-> <<"generate">>]

TopScore(docs) ==
    IF docs = <<>> THEN 0 ELSE SeqMax([i \in 1..Len(docs) |-> docs[i].relevance_score])

SkipsForNoDocuments(st) == st.relevant_documents = <<>>
\* Mutant: check_hallucination without its fast path for simple queries.
SkipsForSimpleHighConfidenceNever(st) == FALSE

SkipsForSimpleHighConfidence(st) ==
    /\ st.relevant_documents # <<>>
    /\ st.query_complexity = "simple"
    /\ TopScore(st.relevant_documents) >= 70

\* check_hallucination calls the model: the fast score is ambiguous.
\* Mutant: the model is asked at the upper edge of the band as well.
CheckCallsLlmInclusive(st, fast_score) ==
    /\ ~SkipsForNoDocuments(st)
    /\ ~SkipsForSimpleHighConfidence(st)
    /\ fast_score >= 30
    /\ fast_score <= 80

CheckCallsLlm(st, fast_score) ==
    /\ ~SkipsForNoDocuments(st)
    /\ ~SkipsForSimpleHighConfidence(st)
    /\ fast_score >= 30
    /\ fast_score < 80

\* What check_hallucination reads in the model's reply: whether it contains
\* "grounded: yes", the SCORE line if one parses, the ISSUES text if not "none".
Verdict(grounded_yes, has_score, score, issues) ==
    [grounded_yes |-> grounded_yes, has_score |-> has_score, score |-> score,
     issues |-> issues]

\* fast_score: the value of _fast_groundedness_check(answer, sources);
\* reply: the parsed reply of the model, read in the ambiguous band only.
check_hallucination(st, fast_score, reply) ==
    IF SkipsForNoDocuments(st)
    THEN [is_grounded |-> TRUE,
          groundedness_score |-> 100,
          fast_groundedness_score |-> 100,
          skip_llm_hallucination_check |-> TRUE,
          hallucination_details |-> None,
          iteration |-> st.iteration + 1,
          processing_steps |-> <<"hallucination_skip">>]
    ELSE IF SkipsForSimpleHighConfidence(st)
    THEN [is_grounded |-> TRUE,
          groundedness_score |-> TopScore(st.relevant_documents),
          fast_groundedness_score |-> TopScore(st.relevant_documents),
          skip_llm_hallucination_check |-> TRUE,
          hallucination_details |-> None,
          iteration |-> st.iteration + 1,
          processing_steps |-> <<"hallucination_skip_simple_highconf">>]
    ELSE IF fast_score >= 80
    THEN [is_grounded |-> TRUE,
          groundedness_score |-> fast_score,
          fast_groundedness_score |-> fast_score,
          skip_llm_hallucination_check |-> TRUE,
          hallucination_details |-> None,
          iteration |-> st.iteration + 1,
          processing_steps |-> <<"hallucination_fast_pass">>]
    ELSE IF fast_score < 30
    THEN [is_grounded |-> FALSE,
          groundedness_score |-> fast_score,
          fast_groundedness_score |-> fast_score,
          skip_llm_hallucination_check |-> TRUE,
          hallucination_details |-> "Answer contains claims not found in sources",
          iteration |-> st.iteration + 1,
          processing_steps |-> <<"hallucination_fast_fail">>]
    ELSE [is_grounded |-> reply.grounded_yes,
          groundedness_score |-> IF reply.has_score THEN reply.score ELSE fast_score,
          fast_groundedness_score |-> fast_score,
          skip_llm_hallucination_check |-> FALSE,
          hallucination_details |-> reply.issues,
          iteration |-> st.iteration + 1,
          processing_steps |-> <<"hallucination_llm_check">>]

\* RAGNodes.save_to_memory: the user turn, then the assistant turn; the
\* second write does not happen when the first raises.
save_to_memory(turns, st, ok_user, ok_assistant) ==
    IF ~ok_user THEN turns
    ELSE IF ~ok_assistant THEN Append(turns, UserTurn(st.question))
    ELSE Append(Append(turns, UserTurn(st.question)),
                AssistantTurn(st.answer, st.sources))

(***************************************************************************)
(* Routing functions of the graph                                          *)
(***************************************************************************)
\* Mutant: a greeting is sent to retrieval as well.
rag_intents_with_greeting == {"question", "command", "greeting"}

rag_intents == {"question", "command"}

needs_rag(st) == IF st.detected_intent \in rag_intents THEN "rag" ELSE "no_rag"

should_rewrite(st) == IF st.skip_rewrite THEN "retrieve" ELSE "rewrite"

\* Mutant: the rewrite budget is not consulted.
has_relevant_docs_unbounded(st) ==
    IF st.collection_empty THEN "generate"
    ELSE IF st.relevant_documents # <<>> THEN "generate"
    ELSE "rewrite"

\* Mutant: the routing after grading does not look at collection_empty.
has_relevant_docs_ignores_empty(st) ==
    IF st.rewrite_count >= st.max_iterations THEN "generate"
    ELSE IF st.relevant_documents # <<>> THEN "generate"
    ELSE "rewrite"

has_relevant_docs(st) ==
    IF st.rewrite_count >= st.max_iterations THEN "generate"
    ELSE IF st.collection_empty THEN "generate"
    ELSE IF st.relevant_documents # <<>> THEN "generate"
    ELSE "rewrite"

\* Mutant: the retry budget is compared with > instead of >=.
should_retry_off_by_one(st) ==
    IF st.is_grounded THEN "finish"
    ELSE IF st.iteration > st.max_iterations THEN "finish" ELSE "retry"

should_retry(st) ==
    IF st.is_grounded THEN "finish"
    ELSE IF st.iteration >= st.max_iterations THEN "finish" ELSE "retry"

(***************************************************************************)
(* Inputs                                                                  *)
(***************************************************************************)
\* Questions: "", "a", " a ", "!!!", "a!!", "the the", "aaaa" are stopped by
\* layer 0; "hi" and "X VS Y" go on to the semantic layer.
Questions == {
    <<>>,
    <<"a">>,
    <<" ", "a", " ">>,
    <<"!", "!", "!">>,
    <<"a", "!", "!">>,
    <<"t", "h", "e", " ", "t", "h", "e">>,
    <<"a", "a", "a", "a">>,
    <<"h", "i">>,
    <<"X", " ", "V", "S", " ", "Y">> }

\* A reply of the language model after .strip(): empty or not.
EMPTY_TEXT == <<>>
MODEL_TEXT == <<"Grounded", "answer.">>
LlmReplies == {Ok(EMPTY_TEXT), Ok(MODEL_TEXT), Raised}

\* The reply of the model to QUERY_REWRITE_PROMPT, after .strip().
RewriteReplies == {Ok("rewritten"), Raised}

\* Sessions: complete exchanges of an earlier question and its stored answer
\* (empty when the model replied with whitespace only); in the last one the
\* only answer with content is older than the last four turns.
PreviousQuestion == <<"c", "a", "p">>
PreviousSources == <<Source("a.pdf", 90)>>
Exchange(answer) ==
    <<UserTurn(PreviousQuestion),
      AssistantTurn(answer, IF answer = EMPTY_TEXT THEN <<>> ELSE PreviousSources)>>

Histories == {
    <<>>,
    Exchange(MODEL_TEXT),
    Exchange(MODEL_TEXT) \o Exchange(EMPTY_TEXT),
    Exchange(MODEL_TEXT) \o Exchange(EMPTY_TEXT) \o Exchange(EMPTY_TEXT) }

\* Retrieved chunks.  The hybrid retriever returns chunks already expanded to
\* their parents; the vector store returns raw chunks, here two of one parent
\* around a chunk without parent.
HybridLists == {
    <<>>,
    <<Hit("a.pdf", "p1", 80)>>,
    <<Hit("a.pdf", "p1", 80), Hit("b.pdf", None, 50)>> }
VectorLists == {
    <<>>,
    <<Hit("b.pdf", None, 50), Hit("a.pdf", "p1", 80), Hit("a.pdf", "p1", 20)>> }
HybridOutcomes == {Ok(l) : l \in HybridLists} \cup {Raised}
VectorOutcomes == {Ok(l) : l \in VectorLists} \cup {Raised}

\* get_collection_info: None for a missing collection, else its count.
CollectionInfos ==
    {Ok([exists |-> FALSE, count |-> 0]), Ok([exists |-> TRUE, count |-> 0]),
     Ok([exists |-> TRUE, count |-> 3]), Raised}

\* The context filter keeps a sub-list of the documents, or fails.
KeepOutcomes(n) == {Ok(k) : k \in SUBSET (1..n)} \cup {Raised}

\* The cross-encoder gives each document a logit, or fails (or is missing).
Logits == {-1, 1}
RerankOutcomes(n) == {Ok(l) : l \in [1..n -> Logits]} \cup {Raised}

\* _fast_groundedness_check is 0.5 for an answer without content words;
\* otherwise any score, of which the model takes one per band and the
\* lower edge of each band.
FastScores(answer) == IF answer = EMPTY_TEXT THEN {50} ELSE {29, 30, 80}

\* The fast check is not run when check_hallucination returns before it.
FastScoreChoices(st) ==
    IF SkipsForNoDocuments(st) \/ SkipsForSimpleHighConfidence(st) THEN {0}
    ELSE FastScores(st.answer)

\* The model's reply to HALLUCINATION_CHECK_PROMPT: a well-formed yes, a
\* well-formed no, a reply with neither "GROUNDED:" nor "SCORE:" nor "ISSUES:",
\* and a yes whose score is written as a percentage ("SCORE: 85", which
\* float() reads as 85.0).
MalformedVerdict == Verdict(FALSE, FALSE, 0, None)
PercentVerdict == Verdict(TRUE, TRUE, 8500, None)
LlmVerdicts ==
    {Ok(Verdict(TRUE, TRUE, 90, None)),
     Ok(Verdict(FALSE, TRUE, 40, "unsupported claim")),
     Ok(MalformedVerdict),
     Ok(PercentVerdict),
     Raised}

(***************************************************************************)
(* aquery: the compiled graph, one action per node                         *)
(***************************************************************************)
\* The conditional edges of _build_graph.
classify_intent_edges == [rag |-> "route_query", no_rag |-> "handle_non_rag_intent"]
route_query_edges ==
    [rewrite |-> "rewrite_query", retrieve |-> "retrieve",
     summarize |-> "retrieve_sequential", garbage |-> "handle_garbage_query"]
grade_documents_edges == [generate |-> "generate", rewrite |-> "rewrite_query"]
check_hallucination_edges == [retry |-> "generate", finish |-> "save_to_memory"]

\* The calls IntentRouter.classify makes to the models.
ClassifyCalls(query, sem, reply) ==
    (IF ReachesLayer1(query) /\ (~sem.ok \/ sem.val.available)
     THEN <<"embed">> ELSE <<>>)
    \o (IF ReachesLayer2(query, sem) THEN <<"INTENT_CLASSIFICATION_PROMPT">> ELSE <<>>)

\* An outcome that is not read is fixed to Raised, so that each behaviour of
\* the collaborators is taken once.
Unread(outcome) == outcome = Raised

ClassifyIntent ==
    /\ node = "classify_intent"
    /\ \E sem \in SemanticOutcomes, reply \in LlmIntentReplies, probe_ok \in BOOLEAN :
        LET cls == IntentRouter_classify(state.question, sem, reply)
            probed == cls.ok /\ cls.val[1] \in conversation_intents
        IN  /\ ~ReachesLayer1(state.question) => Unread(sem)
            /\ ~ReachesLayer2(state.question, sem) => Unread(reply)
            /\ ~probed => probe_ok
            /\ model_calls' = model_calls \o ClassifyCalls(state.question, sem, reply)
            /\ IF cls.ok
               THEN LET st == GraphMerge(state,
                                  classify_intent(state, cls.val,
                                                  ReadHistory(history, 1, probe_ok)))
                    IN  /\ state' = st
                        /\ node' = classify_intent_edges[needs_rag(st)]
               ELSE /\ state' = state
                    /\ node' = "RAISED"
    /\ UNCHANGED <<history, stream_vars, retriever_vars, tasks>>

HandlerPrompt(intent) ==
    CASE intent = "followup" -> "FOLLOWUP_PROMPT"
      [] intent = "simplify" -> "SIMPLIFY_PROMPT"
      [] intent = "deepen" -> "DEEPEN_PROMPT"

HandleNonRagIntent ==
    /\ node = "handle_non_rag_intent"
    /\ \E read_ok \in BOOLEAN, reply \in LlmReplies :
        LET read == ReadHistory(history, 4, read_ok)
            called == HandlerCallsLlm(state.detected_intent, read)
        IN  /\ state.detected_intent \notin context_handlers => read_ok
            /\ ~called => Unread(reply)
            /\ state' = GraphMerge(state, handle_non_rag_intent(state, read, reply))
            /\ model_calls' = model_calls \o
                   (IF called THEN <<HandlerPrompt(state.detected_intent)>> ELSE <<>>)
    /\ node' = "END"
    /\ UNCHANGED <<history, stream_vars, retriever_vars, tasks>>

RouteQuery ==
    /\ node = "route_query"
    /\ LET st == GraphMerge(state, route_query(state))
       IN  /\ state' = st
           /\ node' = route_query_edges[should_rewrite(st)]
    /\ UNCHANGED <<history, model_calls, stream_vars, retriever_vars, tasks>>

\* rewrite_query reads the history and calls the model outside any try:
\* either failure ends the run with the exception.
RewriteQuery ==
    /\ node = "rewrite_query"
    /\ \E read_ok \in BOOLEAN, reply \in RewriteReplies :
        /\ ~read_ok => Unread(reply)
        /\ model_calls' = model_calls \o
               (IF read_ok THEN <<"QUERY_REWRITE_PROMPT">> ELSE <<>>)
        /\ IF read_ok /\ reply.ok
           THEN /\ state' = GraphMerge(state, rewrite_query(state, reply.val))
                /\ node' = "retrieve"
           ELSE /\ state' = state
                /\ node' = "RAISED"
    /\ UNCHANGED <<history, stream_vars, retriever_vars, tasks>>

Retrieve ==
    /\ node = "retrieve"
    /\ \E hybrid \in HybridOutcomes, vector \in VectorOutcomes, info \in CollectionInfos :
        LET st == GraphMerge(state, retrieve(state, hybrid, vector, info))
        IN  /\ (IF hybrid.ok THEN hybrid.val # <<>> ELSE FALSE) => Unread(vector)
            /\ st.retrieved_documents # <<>> => Unread(info)
            /\ state' = st
    /\ node' = "grade_documents"
    /\ UNCHANGED <<history, model_calls, stream_vars, retriever_vars, tasks>>

GradeDocuments ==
    /\ node = "grade_documents"
    /\ \E keep \in KeepOutcomes(Len(state.retrieved_documents)),
          scored \in RerankOutcomes(Len(state.retrieved_documents)) :
        LET st == GraphMerge(state, grade_documents(state, keep, scored))
        IN  /\ state' = st
            /\ node' = grade_documents_edges[has_relevant_docs(st)]
    /\ UNCHANGED <<history, model_calls, stream_vars, retriever_vars, tasks>>

\* generate reads the history and calls the model outside any try.
Generate ==
    /\ node = "generate"
    /\ \E read_ok \in BOOLEAN, reply \in LlmReplies :
        /\ ~read_ok => Unread(reply)
        /\ model_calls' = model_calls \o
               (IF read_ok THEN <<GenerationPrompt(state)>> ELSE <<>>)
        /\ IF read_ok /\ reply.ok
           THEN /\ state' = GraphMerge(state, generate(state, reply.val))
                /\ node' = "check_hallucination"
           ELSE /\ state' = state
                /\ node' = "RAISED"
    /\ UNCHANGED <<history, stream_vars, retriever_vars, tasks>>

CheckHallucination ==
    /\ node = "check_hallucination"
    /\ \E fast_score \in FastScoreChoices(state), reply \in LlmVerdicts :
        LET called == CheckCallsLlm(state, fast_score)
        IN  /\ ~called => Unread(reply)
            /\ model_calls' = model_calls \o
                   (IF called THEN <<"HALLUCINATION_CHECK_PROMPT">> ELSE <<>>)
            /\ IF called /\ ~reply.ok
               THEN /\ state' = state
                    /\ node' = "RAISED"
               ELSE LET st == GraphMerge(state,
                                  check_hallucination(state, fast_score,
                                      IF called THEN reply.val
                                      ELSE Verdict(FALSE, FALSE, 0, None)))
                    IN  /\ state' = st
                        /\ node' = check_hallucination_edges[should_retry(st)]
    /\ UNCHANGED <<history, stream_vars, retriever_vars, tasks>>

\* save_to_memory writes the user turn, then the assistant turn; a write
\* that raises ends the run with the exception.
SaveToMemory ==
    /\ node = "save_to_memory"
    /\ \E ok_user \in BOOLEAN, ok_assistant \in BOOLEAN :
        /\ ~ok_user => ok_assistant
        /\ history' = save_to_memory(history, state, ok_user, ok_assistant)
        /\ IF ok_user /\ ok_assistant
           THEN /\ state' = GraphMerge(state, [processing_steps |-> <<"save_to_memory">>])
                /\ node' = "END"
           ELSE /\ state' = state
                /\ node' = "RAISED"
    /\ UNCHANGED <<model_calls, stream_vars, retriever_vars, tasks>>

Init ==
    /\ \E question \in Questions, max_iterations \in 0..MaxRetriesBound :
        state = create_initial_state(question, max_iterations)
    /\ node = "classify_intent"
    /\ history \in Histories
    /\ model_calls = <<>>
    /\ pc = "idle"
    /\ events = <<>>
    /\ pending = <<>>
    /\ full_answer = <<>>
    /\ received = 0
    /\ RetrieverIdle

Next ==
    \/ ClassifyIntent
    \/ HandleNonRagIntent
    \/ RouteQuery
    \/ RewriteQuery
    \/ Retrieve
    \/ GradeDocuments
    \/ Generate
    \/ CheckHallucination
    \/ SaveToMemory

Spec == Init /\ [][Next]_vars

(***************************************************************************)
(* astream: the generator, one action per awaited node or yielded event    *)
(***************************************************************************)
\* The model streams up to MaxChunks chunks; the i-th chunk is empty or the
\* i-th piece of the reply "tok en tok en ...".
MaxChunks == 2
Chunks(i) == {"", IF i % 2 = 1 THEN "tok" ELSE "en"}

PhaseEvent(phase) == [type |-> "phase", data |-> phase]
SourcesEvent(sources) == [type |-> "sources", data |-> sources]
TokenEvent(content) == [type |-> "token", data |-> content]
DoneEvent(is_grounded, iterations, query_complexity, detected_intent) ==
    [type |-> "done",
     data |-> [is_grounded |-> is_grounded, iterations |-> iterations,
               query_complexity |-> query_complexity,
               detected_intent |-> detected_intent]]
ErrorEvent == [type |-> "error", data |-> "str(e)"]

\* Mutant: the error event is followed by a done event.
YieldErrorThenDone ==
    /\ events' = events \o <<ErrorEvent, DoneEvent(FALSE, 0, None, None)>>
    /\ pc' = "closed"

\* except Exception: yield the error event; the generator is over.
YieldError ==
    /\ events' = Append(events, ErrorEvent)
    /\ pc' = "closed"

StreamStart ==
    /\ pc = "start"
    /\ events' = Append(events, PhaseEvent("searching"))
    /\ pc' = "classify_intent"
    /\ UNCHANGED <<state, node, history, model_calls, pending, full_answer, received,
                   retriever_vars, tasks>>

StreamClassifyIntent ==
    /\ pc = "classify_intent"
    /\ \E sem \in SemanticOutcomes, reply \in LlmIntentReplies, probe_ok \in BOOLEAN :
        LET cls == IntentRouter_classify(state.question, sem, reply)
            probed == cls.ok /\ cls.val[1] \in conversation_intents
        IN  /\ ~ReachesLayer1(state.question) => Unread(sem)
            /\ ~ReachesLayer2(state.question, sem) => Unread(reply)
            /\ ~probed => probe_ok
            /\ model_calls' = model_calls \o ClassifyCalls(state.question, sem, reply)
            /\ IF cls.ok
               THEN LET st == DictUpdate(state,
                                  classify_intent(state, cls.val,
                                                  ReadHistory(history, 1, probe_ok)))
                    IN  /\ state' = st
                        /\ pc' = IF needs_rag(st) = "no_rag"
                                 THEN "handle_non_rag_intent" ELSE "route_query"
                        /\ events' = events
               ELSE /\ state' = state
                    /\ YieldError
    /\ UNCHANGED <<node, history, pending, full_answer, received, retriever_vars, tasks>>

\* The handler runs, then the empty source list is yielded.
StreamHandleNonRagIntent ==
    /\ pc = "handle_non_rag_intent"
    /\ \E read_ok \in BOOLEAN, reply \in LlmReplies :
        LET read == ReadHistory(history, 4, read_ok)
            called == HandlerCallsLlm(state.detected_intent, read)
            st == DictUpdate(state, handle_non_rag_intent(state, read, reply))
        IN  /\ state.detected_intent \notin context_handlers => read_ok
            /\ ~called => Unread(reply)
            /\ state' = st
            /\ pending' = st.answer
            /\ model_calls' = model_calls \o
                   (IF called THEN <<HandlerPrompt(state.detected_intent)>> ELSE <<>>)
    /\ events' = Append(events, SourcesEvent(<<>>))
    /\ pc' = "handler_generating"
    /\ UNCHANGED <<node, history, full_answer, received, retriever_vars, tasks>>

StreamHandlerGenerating ==
    /\ pc = "handler_generating"
    /\ events' = Append(events, PhaseEvent("generating"))
    /\ pc' = "handler_tokens"
    /\ UNCHANGED <<state, node, history, model_calls, pending, full_answer, received,
                   retriever_vars, tasks>>

\* for word in answer.split(): yield the word followed by a space.
StreamHandlerToken ==
    /\ pc = "handler_tokens"
    /\ pending # <<>>
    /\ events' = Append(events, TokenEvent(<<Head(pending), " ">>))
    /\ pending' = Tail(pending)
    /\ UNCHANGED <<state, node, history, model_calls, pc, full_answer, received, retriever_vars, tasks>>

\* Mutant: done is yielded and the generator does not return.
StreamHandlerDoneNoReturn ==
    /\ pc = "handler_tokens"
    /\ pending = <<>>
    /\ events' = Append(events, DoneEvent(TRUE, 0, None, state.detected_intent))
    /\ pc' = "route_query"
    /\ UNCHANGED <<state, node, history, model_calls, pending, full_answer, received,
                   retriever_vars, tasks>>

StreamHandlerDone ==
    /\ pc = "handler_tokens"
    /\ pending = <<>>
    /\ events' = Append(events, DoneEvent(TRUE, 0, None, state.detected_intent))
    /\ pc' = "closed"
    /\ UNCHANGED <<state, node, history, model_calls, pending, full_answer, received,
                   retriever_vars, tasks>>

\* route_query never sets query_complexity to "garbage" nor is_summarization:
\* the garbage exit and retrieve_sequential of astream are not reached.
StreamRouteQuery ==
    /\ pc = "route_query"
    /\ LET st == DictUpdate(state, route_query(state))
       IN  /\ state' = st
           /\ pc' = IF ~st.skip_rewrite THEN "rewrite_query" ELSE "retrieve"
    /\ UNCHANGED <<node, history, model_calls, events, pending, full_answer, received,
                   retriever_vars, tasks>>

StreamRewriteQuery ==
    /\ pc = "rewrite_query"
    /\ \E read_ok \in BOOLEAN, reply \in RewriteReplies :
        /\ ~read_ok => Unread(reply)
        /\ model_calls' = model_calls \o
               (IF read_ok THEN <<"QUERY_REWRITE_PROMPT">> ELSE <<>>)
        /\ IF read_ok /\ reply.ok
           THEN /\ state' = DictUpdate(state, rewrite_query(state, reply.val))
                /\ pc' = "retrieve"
                /\ events' = events
           ELSE /\ state' = state
                /\ YieldError
    /\ UNCHANGED <<node, history, pending, full_answer, received, retriever_vars, tasks>>

StreamRetrieve ==
    /\ pc = "retrieve"
    /\ \E hybrid \in HybridOutcomes, vector \in VectorOutcomes, info \in CollectionInfos :
        LET st == DictUpdate(state, retrieve(state, hybrid, vector, info))
        IN  /\ (IF hybrid.ok THEN hybrid.val # <<>> ELSE FALSE) => Unread(vector)
            /\ st.retrieved_documents # <<>> => Unread(info)
            /\ state' = st
    /\ pc' = "grade_documents"
    /\ UNCHANGED <<node, history, model_calls, events, pending, full_answer, received,
                   retriever_vars, tasks>>

\* Mutant: the documents are graded and the source list is not yielded.
StreamGradeDocumentsSilent ==
    /\ pc = "grade_documents"
    /\ \E keep \in KeepOutcomes(Len(state.retrieved_documents)),
          scored \in RerankOutcomes(Len(state.retrieved_documents)) :
        state' = DictUpdate(state, grade_documents(state, keep, scored))
    /\ pc' = "rag_generating"
    /\ UNCHANGED <<node, history, model_calls, events, pending, full_answer, received,
                   retriever_vars, tasks>>

\* The documents are graded, then the source list is yielded.
StreamGradeDocuments ==
    /\ pc = "grade_documents"
    /\ \E keep \in KeepOutcomes(Len(state.retrieved_documents)),
          scored \in RerankOutcomes(Len(state.retrieved_documents)) :
        LET st == DictUpdate(state, grade_documents(state, keep, scored))
        IN  /\ state' = st
            /\ events' = Append(events, SourcesEvent(st.sources))
    /\ pc' = "rag_generating"
    /\ UNCHANGED <<node, history, model_calls, pending, full_answer, received, retriever_vars, tasks>>

StreamRagGenerating ==
    /\ pc = "rag_generating"
    /\ events' = Append(events, PhaseEvent("generating"))
    /\ pc' = "generate"
    /\ UNCHANGED <<state, node, history, model_calls, pending, full_answer, received,
                   retriever_vars, tasks>>

\* _get_chat_history catches its failures; the prompt is always
\* GENERATION_PROMPT; llm.astream(prompt) is opened.
StreamGenerate ==
    /\ pc = "generate"
    /\ model_calls' = Append(model_calls, "GENERATION_PROMPT")
    /\ pc' = "streaming"
    /\ UNCHANGED <<state, node, history, events, pending, full_answer, received, retriever_vars, tasks>>

\* Mutant: the token is yielded, but put in front of the answer accumulated
\* so far.
StreamChunkReordered ==
    /\ pc = "streaming"
    /\ received < MaxChunks
    /\ \E token \in Chunks(received + 1) :
        /\ received' = received + 1
        /\ IF token # ""
           THEN /\ full_answer' = <<token>> \o full_answer
                /\ events' = Append(events, TokenEvent(<<token>>))
           ELSE /\ full_answer' = full_answer
                /\ events' = events
    /\ UNCHANGED <<state, node, history, model_calls, pc, pending, retriever_vars, tasks>>

\* A chunk arrives: an empty one is dropped, any other is yielded as a token.
StreamChunk ==
    /\ pc = "streaming"
    /\ received < MaxChunks
    /\ \E token \in Chunks(received + 1) :
        /\ received' = received + 1
        /\ IF token # ""
           THEN /\ full_answer' = Append(full_answer, token)
                /\ events' = Append(events, TokenEvent(<<token>>))
           ELSE /\ full_answer' = full_answer
                /\ events' = events
    /\ UNCHANGED <<state, node, history, model_calls, pc, pending, retriever_vars, tasks>>

\* Mutant: a failure of the model's stream is swallowed and the stream ends
\* with done.
StreamChunkRaisesSilent ==
    /\ pc = "streaming"
    /\ events' = Append(events,
            DoneEvent(state.is_grounded, state.iteration,
                      state.query_complexity, state.detected_intent))
    /\ pc' = "closed"
    /\ UNCHANGED <<state, node, history, model_calls, pending, full_answer, received,
                   retriever_vars, tasks>>

\* The model raises while streaming.
StreamChunkRaises ==
    /\ pc = "streaming"
    /\ YieldError
    /\ UNCHANGED <<state, node, history, model_calls, pending, full_answer, received,
                   retriever_vars, tasks>>

\* The model's stream ends: state["answer"] = full_answer.
StreamEnd ==
    /\ pc = "streaming"
    /\ state' = [state EXCEPT !.answer = full_answer]
    /\ pc' = "check_hallucination"
    /\ UNCHANGED <<node, history, model_calls, events, pending, full_answer, received,
                   retriever_vars, tasks>>

StreamCheckHallucination ==
    /\ pc = "check_hallucination"
    /\ \E fast_score \in FastScoreChoices(state), reply \in LlmVerdicts :
        LET called == CheckCallsLlm(state, fast_score)
        IN  /\ ~called => Unread(reply)
            /\ model_calls' = model_calls \o
                   (IF called THEN <<"HALLUCINATION_CHECK_PROMPT">> ELSE <<>>)
            /\ IF called /\ ~reply.ok
               THEN /\ state' = state
                    /\ YieldError
               ELSE /\ state' = DictUpdate(state,
                                  check_hallucination(state, fast_score,
                                      IF called THEN reply.val
                                      ELSE Verdict(FALSE, FALSE, 0, None)))
                    /\ pc' = "save_to_memory"
                    /\ events' = events
    /\ UNCHANGED <<node, history, pending, full_answer, received, retriever_vars, tasks>>

\* The turns are saved (the node's result is not merged), then done is yielded.
StreamSaveToMemory ==
    /\ pc = "save_to_memory"
    /\ \E ok_user \in BOOLEAN, ok_assistant \in BOOLEAN :
        /\ ~ok_user => ok_assistant
        /\ history' = save_to_memory(history, state, ok_user, ok_assistant)
        /\ IF ok_user /\ ok_assistant
           THEN /\ events' = Append(events,
                        DoneEvent(state.is_grounded, state.iteration,
                                  state.query_complexity, state.detected_intent))
                /\ pc' = "closed"
           ELSE YieldError
    /\ UNCHANGED <<state, node, model_calls, pending, full_answer, received, retriever_vars, tasks>>

InitStream ==
    /\ \E question \in Questions, max_iterations \in 0..MaxRetriesBound :
        state = create_initial_state(question, max_iterations)
    /\ node = "idle"
    /\ history \in Histories
    /\ model_calls = <<>>
    /\ pc = "start"
    /\ events = <<>>
    /\ pending = <<>>
    /\ full_answer = <<>>
    /\ received = 0
    /\ RetrieverIdle

NextStream ==
    \/ StreamStart
    \/ StreamClassifyIntent
    \/ StreamHandleNonRagIntent
    \/ StreamHandlerGenerating
    \/ StreamHandlerToken
    \/ StreamHandlerDone
    \/ StreamRouteQuery
    \/ StreamRewriteQuery
    \/ StreamRetrieve
    \/ StreamGradeDocuments
    \/ StreamRagGenerating
    \/ StreamGenerate
    \/ StreamChunk
    \/ StreamChunkRaises
    \/ StreamEnd
    \/ StreamCheckHallucination
    \/ StreamSaveToMemory

SpecStream == InitStream /\ [][NextStream]_vars

(***************************************************************************)
(* The event stream of astream                                             *)
(***************************************************************************)
\* The kind of an event: the phase of a phase event, else its type.
Kind(e) == IF e.type = "phase" THEN e.data ELSE e.type
Kinds == [i \in 1..Len(events) |-> Kind(events[i])]
CountKind(k) == Cardinality({i \in 1..Len(events) : Kinds[i] = k})

\* The events yielded before the error event that ends a failed stream.
BeforeError ==
    IF events # <<>> /\ Kinds[Len(events)] = "error"
    THEN SubSeq(Kinds, 1, Len(events) - 1)
    ELSE Kinds

\* k starts searching, sources, generating, then tokens, then at most a done.
InStreamOrder(k) ==
    \A i \in 1..Len(k) :
        CASE i = 1 -> k[i] = "searching"
          [] i = 2 -> k[i] = "sources"
          [] i = 3 -> k[i] = "generating"
          [] OTHER -> k[i] = "token" \/ (k[i] = "done" /\ i = Len(k))

\* C1: the events astream yields appear in the order phase(searching),
\* sources, phase(generating), zero or more tokens, done, an error event
\* ending the stream where a collaborator raised; no token is yielded before
\* the sources event; a stream that ends without error ends with done.
C1_EventOrder ==
    /\ InStreamOrder(BeforeError)
    /\ \A i \in 1..Len(events) :
        Kinds[i] = "token" => \E j \in 1..(i - 1) : Kinds[j] = "sources"
    /\ (pc = "closed" /\ CountKind("error") = 0) =>
           (Len(events) >= 4 /\ Kinds[Len(events)] = "done")

\* C1 witness: a finished stream of the RAG path with two tokens.
C1_RagStreamWithTokens ==
    /\ pc = "closed"
    /\ state.detected_intent \in rag_intents
    /\ Kinds = <<"searching", "sources", "generating", "token", "token", "done">>

C3_NothingAfterDone ==
    \A i \in 1..Len(events) :
        Kinds[i] = "done" => (i = Len(events) /\ pc = "closed")

\* C3 witness: the greeting handler's stream, ended by done.
C3_HandlerStreamDone ==
    /\ pc = "closed"
    /\ state.detected_intent = "greeting"
    /\ Kinds[Len(events)] = "done"
    /\ CountKind("token") = Len(GREETING_ANSWER)

(***************************************************************************)
(* The final state of aquery                                               *)
(***************************************************************************)
Steps == state.processing_steps
LastStep == Steps[Len(Steps)]

RetrievalSteps == {"retrieve_hybrid", "retrieve_sequential", "query_rewrite"}
GradingSteps == {"grade_empty", "grade_context_filter", "grade_reranker", "grade_threshold"}
GenerationSteps == {"generate"}
VerificationSteps ==
    {"hallucination_skip", "hallucination_skip_simple_highconf",
     "hallucination_fast_pass", "hallucination_fast_fail", "hallucination_llm_check"}
PipelineSteps == RetrievalSteps \cup GradingSteps \cup GenerationSteps \cup VerificationSteps

CountSteps(S) == Cardinality({i \in 1..Len(Steps) : Steps[i] \in S})

\* C4 as stated: at END the iteration counter never exceeds max_iterations,
\* whatever max_iterations is configured.
C4_IterationWithinMax ==
    node = "END" => state.iteration <= state.max_iterations

\* C5: at END the answer is not None, the trace is non-empty and starts with
\* the classification step, and is_grounded is what the last stage set: true
\* after the non-retrieval handler; after save_to_memory the verdict of the
\* last verification step (true for a skip or a fast pass, false for a fast
\* fail, the model's verdict otherwise).
C5_TerminalGuarantees ==
    node = "END" =>
        /\ state.answer # NoneText
        /\ Len(state.sources) >= 0
        /\ Steps # <<>>
        /\ Steps[1] = "classify_intent"
        /\ IF LastStep = "save_to_memory"
           THEN /\ Len(Steps) >= 3
                /\ Steps[Len(Steps) - 1] \in VerificationSteps
                /\ Steps[Len(Steps) - 1] \in
                       {"hallucination_skip", "hallucination_skip_simple_highconf",
                        "hallucination_fast_pass"} => state.is_grounded
                /\ Steps[Len(Steps) - 1] = "hallucination_fast_fail" => ~state.is_grounded
           ELSE /\ Len(Steps) = 2
                /\ LastStep \notin PipelineSteps
                /\ state.is_grounded

\* C5 witness: the run ends after save_to_memory with an answer that the
\* last check found not grounded.
C5_EndNotGrounded ==
    /\ node = "END"
    /\ LastStep = "save_to_memory"
    /\ Steps[Len(Steps) - 1] = "hallucination_fast_fail"
    /\ ~state.is_grounded

\* C6: a run that ends with detected_intent greeting, gratitude, garbage or
\* off_topic has no sources, is grounded, and its trace holds no retrieval,
\* grading, generation or verification step.
C6_SimpleIntentSkipsRetrieval ==
    (node = "END" /\ state.detected_intent \in simple_handlers) =>
        /\ state.sources = <<>>
        /\ state.is_grounded
        /\ CountSteps(PipelineSteps) = 0

\* C6 witness: the model classified the question as off-topic.
C6_OffTopicEnd ==
    /\ node = "END"
    /\ state.detected_intent = "off_topic"
    /\ Steps = <<"classify_intent", "handle_off_topic">>

ShortQuestion == Len(Strip(state.question)) <= 1
ClassifierCalls == {"embed", "INTENT_CLASSIFICATION_PROMPT"}

\* C7: a question of stripped length 0 or 1 is garbage by layer 0, without
\* any call to a model, and its trace is classify_intent, handle_garbage; a
\* greeting's trace is classify_intent, handle_greeting and its answer starts
\* with "Hello!"; a simple handler calls no model and returns the same result
\* whatever the history read and the model would give.
C7_SingleHop ==
    /\ (ShortQuestion /\ node # "classify_intent") =>
           /\ node \in {"handle_non_rag_intent", "END"}
           /\ state.detected_intent = "garbage"
           /\ model_calls = <<>>
    /\ (ShortQuestion /\ node = "END") =>
           Steps = <<"classify_intent", "handle_garbage">>
    /\ (node = "END" /\ state.detected_intent = "greeting") =>
           /\ Steps = <<"classify_intent", "handle_greeting">>
           /\ state.answer = GREETING_ANSWER
           /\ Head(state.answer) = "Hello!"
    /\ (node = "END" /\ state.detected_intent \in simple_handlers) =>
           Range(model_calls) \subseteq ClassifierCalls
    /\ (node = "handle_non_rag_intent" /\ state.detected_intent \in simple_handlers) =>
           \A ok \in BOOLEAN, reply \in LlmReplies :
               LET read == ReadHistory(history, 4, ok)
               IN  /\ ~HandlerCallsLlm(state.detected_intent, read)
                   /\ dispatch_intent_handler(state.detected_intent, read, reply)
                          = dispatch_intent_handler(state.detected_intent, Raised, Raised)

\* C7 witness: the question " a " ended after the garbage handler.
C7_OneCharacterEnd ==
    /\ node = "END"
    /\ state.question = <<" ", "a", " ">>
    /\ Steps = <<"classify_intent", "handle_garbage">>
    /\ model_calls = <<>>

\* C8: with no prior turn in the session, classify_intent turns a followup,
\* simplify or deepen of the classifier into question with confidence 1.0
\* and the graph goes on to route_query; the non-retrieval handler never
\* runs a conversation intent on an empty session.
C8_NoHistoryDowngrade ==
    /\ (node = "classify_intent" /\ history = <<>>) =>
           \A intent \in conversation_intents, confidence \in {70, 90}, ok \in BOOLEAN :
               LET result == classify_intent(state, <<intent, confidence>>,
                                             ReadHistory(history, 1, ok))
               IN  /\ result.detected_intent = "question"
                   /\ result.intent_confidence = 100
                   /\ classify_intent_edges[needs_rag(GraphMerge(state, result))]
                          = "route_query"
    /\ (history = <<>> /\ node # "classify_intent") =>
           state.detected_intent \notin conversation_intents
    /\ (node = "handle_non_rag_intent" /\ state.detected_intent \in conversation_intents)
           => history # <<>>

\* C8 witness: the semantic layer matched a conversation intent on an empty
\* session; only the downgrade gives question the confidence 1.0.
C8_DowngradedToQuestion ==
    /\ node = "route_query"
    /\ history = <<>>
    /\ model_calls = <<"embed">>
    /\ state.detected_intent = "question"
    /\ state.intent_confidence = 100

(***************************************************************************)
(* The context handlers                                                    *)
(***************************************************************************)
\* The turns the handlers read: the last four of the session.
Window == get_history(history, 4)
AssistantTurns(turns) == {i \in 1..Len(turns) : turns[i].role = "assistant"}
Newest(indices) == CHOOSE i \in indices : \A j \in indices : j <= i

\* No assistant turn among the turns has content.
NoAnswerWithContent(turns) ==
    \A i \in AssistantTurns(turns) : turns[i].content = <<>>

\* The newest assistant turn of what the handler read has no content: the
\* read failed, or found no assistant turn, or the newest one is empty.
NewestAnswerEmpty(read) ==
    \/ ~read.ok
    \/ (read.ok /\ AssistantTurns(read.val) = {})
    \/ (read.ok /\ AssistantTurns(read.val) # {}
          /\ read.val[Newest(AssistantTurns(read.val))].content = <<>>)

HandlerName(intent) ==
    CASE intent = "followup" -> "handle_followup"
      [] intent = "simplify" -> "handle_simplify"
      [] intent = "deepen" -> "handle_deepen"
HandlerErrorName(intent) ==
    CASE intent = "followup" -> "handle_followup_error"
      [] intent = "simplify" -> "handle_simplify_error"
      [] intent = "deepen" -> "handle_deepen_error"

\* The dispatcher is about to run a context handler on the session.
HandlerAboutToRun ==
    node = "handle_non_rag_intent" /\ state.detected_intent \in context_handlers

\* What the orchestrator makes of needs_rag: the fixed reply, no sources,
\* grounded.
EndsWithoutContext ==
    (node = "END" /\ state.detected_intent \in context_handlers
         /\ LastStep = NoContextStep(HandlerName(state.detected_intent))) =>
        /\ state.answer = NO_CONTEXT_ANSWER
        /\ state.sources = <<>>
        /\ state.is_grounded

\* C9 as stated: with the memory store and the model answering, the
\* dispatcher returns needs_rag with handler_used handle_<intent> and without
\* calling the model exactly when no assistant turn among the last four has
\* content, and else the model's answer; needs_rag ends in the fixed reply.
C9_NeedsRagIffNoAnswerInWindow ==
    /\ HandlerAboutToRun =>
        \A reply \in {r \in LlmReplies : r.ok} :
            LET intent == state.detected_intent
                read == ReadHistory(history, 4, TRUE)
                result == dispatch_intent_handler(intent, read, reply)
            IN  IF NoAnswerWithContent(Window)
                THEN /\ result.needs_rag
                     /\ result.handler_used = HandlerName(intent)
                     /\ ~HandlerCallsLlm(intent, read)
                ELSE /\ ~result.needs_rag
                     /\ result.answer = reply.val
    /\ EndsWithoutContext

\* C9 amended: the dispatcher returns needs_rag with handler_used
\* handle_<intent>, without calling the model, exactly when the newest
\* assistant turn among the last four turns it reads has no content (no such
\* turn, an empty one, or a history read that fails); otherwise it calls the
\* model and returns needs_rag false with the model's reply, or with the
\* handler's fixed apology and handler_used handle_<intent>_error when the
\* call raises.  A run that ended called the model exactly when it did not
\* end with the fixed no-context reply, which has no sources and is grounded.
C9_NeedsRagIffNewestAnswerEmpty ==
    /\ HandlerAboutToRun =>
        \A ok \in BOOLEAN, reply \in LlmReplies :
            LET intent == state.detected_intent
                read == ReadHistory(history, 4, ok)
                result == dispatch_intent_handler(intent, read, reply)
            IN  /\ result.needs_rag <=> NewestAnswerEmpty(read)
                /\ result.needs_rag =>
                       /\ result.handler_used = HandlerName(intent)
                       /\ ~HandlerCallsLlm(intent, read)
                /\ ~result.needs_rag =>
                       /\ HandlerCallsLlm(intent, read)
                       /\ IF reply.ok
                          THEN /\ result.answer = reply.val
                               /\ result.handler_used = HandlerName(intent)
                          ELSE /\ result.answer = HandlerErrorAnswer(intent)
                               /\ result.handler_used = HandlerErrorName(intent)
    /\ (node = "END" /\ state.detected_intent \in context_handlers) =>
        LET called == HandlerPrompt(state.detected_intent) \in Range(model_calls)
            no_context == NoContextStep(HandlerName(state.detected_intent))
        IN  /\ Len(Steps) = 2
            /\ called <=> LastStep # no_context
            /\ called => ~NewestAnswerEmpty(Ok(Window))
            /\ NewestAnswerEmpty(Ok(Window)) => LastStep = no_context
    /\ EndsWithoutContext

\* C9 witness: a followup on a session whose newest answer is empty and
\* whose older answer has content ended with the fixed reply.
C9_OlderAnswerIgnored ==
    /\ node = "END"
    /\ state.detected_intent = "followup"
    /\ history = Exchange(MODEL_TEXT) \o Exchange(EMPTY_TEXT)
    /\ Steps = <<"classify_intent", "handle_followup_no_context">>
    /\ state.answer = NO_CONTEXT_ANSWER

(***************************************************************************)
(* Self-correction                                                         *)
(***************************************************************************)
IsGenerationPrompt(call) ==
    call \in {"GENERATION_PROMPT", "GENERATION_WITH_RETRY_PROMPT"}
GenerationCalls == SelectSeq(model_calls, IsGenerationPrompt)
IsVerificationStep(step) == step \in VerificationSteps
Verifications == SelectSeq(Steps, IsVerificationStep)

\* C10: after check_hallucination the graph goes to save_to_memory if the
\* answer is grounded or iteration >= max_iterations, else back to generate;
\* every check counts one iteration.  With max_iterations = 2, a run whose
\* first check is not grounded and whose second is grounded ends with
\* iteration 2, grounded, two generation and two verification steps, the
\* standard prompt first and the retry prompt second.
C10_SelfCorrection ==
    /\ (node \in {"generate", "save_to_memory"} /\ LastStep \in VerificationSteps) =>
           (node = "save_to_memory"
                <=> (state.is_grounded \/ state.iteration >= state.max_iterations))
    /\ state.iteration = Len(Verifications)
    /\ (node = "END" /\ state.max_iterations = 2 /\ LastStep = "save_to_memory"
            /\ Verifications # <<>> /\ Head(Verifications) = "hallucination_fast_fail") =>
           Len(Verifications) = 2
    /\ (node = "END" /\ state.max_iterations = 2 /\ LastStep = "save_to_memory"
            /\ Len(Verifications) = 2 /\ state.is_grounded) =>
           /\ state.iteration = 2
           /\ CountSteps(GenerationSteps) = 2
           /\ GenerationCalls = <<"GENERATION_PROMPT", "GENERATION_WITH_RETRY_PROMPT">>

\* C10 witness: the model found the first answer not grounded and the
\* second grounded.
C10_RetryThenGrounded ==
    /\ node = "END"
    /\ state.max_iterations = 2
    /\ state.iteration = 2
    /\ state.is_grounded
    /\ Verifications = <<"hallucination_llm_check", "hallucination_llm_check">>
    /\ CountSteps(GenerationSteps) = 2
    /\ GenerationCalls = <<"GENERATION_PROMPT", "GENERATION_WITH_RETRY_PROMPT">>

(***************************************************************************)
(* grade_documents on its own: every candidate list up to MaxCandidates,   *)
(* both complexities route_query sets, every reranker outcome              *)
(***************************************************************************)
MaxCandidates == 6
CandidateScores == {10, 40}
CandidateFiles == <<"a.pdf", "b.pdf">>

\* The i-th retrieved document: files alternate, no parent.
Candidate(i, score) ==
    StateDocument(Hit(CandidateFiles[(i % 2) + 1], None, score))

CandidateLists ==
    UNION {{[i \in 1..n |-> Candidate(i, s[i])] : s \in [1..n -> CandidateScores]} :
              n \in 0..MaxCandidates}

\* The context filter keeps everything, drops the last document, drops
\* every document, or fails.
FilterOutcomes(n) ==
    {Ok(1..n), Ok(1..(IF n = 0 THEN 0 ELSE n - 1)), Ok({}), Raised}

GradeCandidates ==
    /\ node = "grade_documents"
    /\ \E keep \in FilterOutcomes(Len(state.retrieved_documents)),
          scored \in RerankOutcomes(Len(state.retrieved_documents)) :
        state' = GraphMerge(state, grade_documents(state, keep, scored))
    /\ node' = "graded"
    /\ UNCHANGED <<history, model_calls, stream_vars, retriever_vars, tasks>>

InitGrade ==
    /\ \E complexity \in {"simple", "complex"}, docs \in CandidateLists :
        state = [create_initial_state(<<"h", "i">>, MaxRetriesBound)
                    EXCEPT !.query_complexity = complexity,
                           !.retrieved_documents = docs]
    /\ node = "grade_documents"
    /\ history = <<>>
    /\ model_calls = <<>>
    /\ pc = "idle"
    /\ events = <<>>
    /\ pending = <<>>
    /\ full_answer = <<>>
    /\ received = 0
    /\ RetrieverIdle

NextGrade == GradeCandidates

SpecGrade == InitGrade /\ [][NextGrade]_vars

\* C11: after grade_documents, relevant_documents has at most 2 elements
\* when query_complexity is simple and at most 5 otherwise, for every number
\* of candidates, on the reranker path and on the threshold fallback path.
C11_AdaptiveK ==
    node = "graded" =>
        Len(state.relevant_documents)
            <= (IF state.query_complexity = "simple" THEN 2 ELSE 5)

\* More than five candidates reach the fallback path of a complex query and
\* exactly five are kept.
C11_SixCandidatesCutToFive ==
    /\ node = "graded"
    /\ Len(state.retrieved_documents) > 5
    /\ state.query_complexity = "complex"
    /\ LastStep = "grade_threshold"
    /\ Len(state.relevant_documents) = 5

(***************************************************************************)
(* Sources against relevant documents                                      *)
(***************************************************************************)
\* The documents of docs that come from the file.
DocsOfFile(docs, filename) == {i \in 1..Len(docs) : docs[i].source = filename}

\* sources is a deduplication of docs by filename: no filename twice, every
\* filename that of some document, with the best score of its documents.
IsDedupOf(sources, docs) ==
    /\ \A i, j \in 1..Len(sources) :
           i # j => sources[i].source # sources[j].source
    /\ \A i \in 1..Len(sources) :
           /\ DocsOfFile(docs, sources[i].source) # {}
           /\ \A d \in DocsOfFile(docs, sources[i].source) :
                  docs[d].relevance_score <= sources[i].relevance_score
           /\ \E d \in DocsOfFile(docs, sources[i].source) :
                  docs[d].relevance_score = sources[i].relevance_score

\* C12 as stated: in every final state of a query, on every terminal path,
\* sources is a deduplication of relevant_documents by source filename.
C12_SourcesDedupRelevant ==
    node = "END" => IsDedupOf(state.sources, state.relevant_documents)

(***************************************************************************)
(* HybridRetriever: the lexical (BM25) index                               *)
(***************************************************************************)
Collections == {"chat_1", "chat_2"}
DocIdValues == {"d1", "d2"}

\* A langchain Document: page_content as its words (what lies between
\* whitespace), each a sequence of characters; metadata.get("doc_id") is
\* None for a chunk ingested without one.
Chunk(page_content, doc_id) == [page_content |-> page_content, doc_id |-> doc_id]

\* HybridRetriever._tokenize: text.lower().split(), [] for an empty text.
_tokenize(text) == [i \in 1..Len(text) |-> Lower(text[i])]

Corpus(documents) ==
    [i \in 1..Len(documents) |-> _tokenize(documents[i].page_content)]
Vocabulary(corpus) == UNION {Range(corpus[i]) : i \in 1..Len(corpus)}

\* BM25Index: the BM25Okapi object is determined by the tokenized corpus.
BM25Index(documents) ==
    [bm25 |-> Corpus(documents), documents |-> documents, doc_count |-> Len(documents)]

\* Mutant: an existing index is updated in place, the documents first, and the
\* scorer is left for a later step.
SetIndexInPlace(ind, c, index) ==
    [x \in DOMAIN ind \cup {c} |->
        IF x # c THEN ind[x]
        ELSE IF c \in DOMAIN ind
             THEN [bm25 |-> ind[c].bm25, documents |-> index.documents,
                   doc_count |-> index.doc_count]
             ELSE index]

\* self._indices[collection_name] = index, and del self._indices[collection_name].
SetIndex(ind, c, index) ==
    [x \in DOMAIN ind \cup {c} |-> IF x = c THEN index ELSE ind[x]]
DelIndex(ind, c) == [x \in DOMAIN ind \ {c} |-> ind[x]]

\* BM25Okapi(corpus) is library code: on a corpus without any token its
\* constructor divides by the size of the vocabulary, so the outcome of the
\* library (lib_ok) is read then and only then.
BuildReadsLibrary(documents) ==
    documents # <<>> /\ Vocabulary(Corpus(documents)) = {}

\* Each operation gives Ok(the indices after it) or Raised.
build_bm25_index(ind, c, documents, lib_ok) ==
    IF documents = <<>> THEN Ok(ind)
    ELSE IF BuildReadsLibrary(documents) /\ ~lib_ok THEN Raised
    ELSE Ok(SetIndex(ind, c, BM25Index(documents)))

\* Mutant: the add builds the index from the new chunks alone.
add_to_bm25_index_overwrites(ind, c, documents, lib_ok) ==
    build_bm25_index(ind, c, documents, lib_ok)

add_to_bm25_index(ind, c, documents, lib_ok) ==
    IF c \in DOMAIN ind
    THEN build_bm25_index(ind, c, ind[c].documents \o documents, lib_ok)
    ELSE build_bm25_index(ind, c, documents, lib_ok)

RECURSIVE RemainingDocs(_, _)
RemainingDocs(documents, doc_ids) ==
    IF documents = <<>> THEN <<>>
    ELSE (IF Head(documents).doc_id \notin doc_ids THEN <<Head(documents)>> ELSE <<>>)
         \o RemainingDocs(Tail(documents), doc_ids)

remove_from_bm25_index(ind, c, doc_ids, lib_ok) ==
    IF c \notin DOMAIN ind THEN Ok(ind)
    ELSE LET remaining_docs == RemainingDocs(ind[c].documents, doc_ids)
         IN  IF remaining_docs # <<>>
             THEN build_bm25_index(ind, c, remaining_docs, lib_ok)
             ELSE Ok(DelIndex(ind, c))

clear_bm25_index(ind, c) == IF c \in DOMAIN ind THEN DelIndex(ind, c) ELSE ind

\* bm25.get_scores: a stand-in for the Okapi formula that keeps what the
\* score depends on: the term's count in the document and, through the
\* inverse document frequency, the whole corpus.
TermCount(tokens, t) == Cardinality({i \in 1..Len(tokens) : tokens[i] = t})
DocFrequency(corpus, t) ==
    Cardinality({i \in 1..Len(corpus) : t \in Range(corpus[i])})
RECURSIVE DocScore(_, _, _)
DocScore(corpus, tokens, tokenized_query) ==
    IF tokenized_query = <<>> THEN 0
    ELSE LET t == Head(tokenized_query)
         IN  TermCount(tokens, t) * (Len(corpus) - DocFrequency(corpus, t) + 1)
             + DocScore(corpus, tokens, Tail(tokenized_query))
get_scores(corpus, tokenized_query) ==
    [i \in 1..Len(corpus) |-> DocScore(corpus, corpus[i], tokenized_query)]

\* Mutant: the index is read without asking whether the collection has one.
_bm25_search_unchecked(ind, query, c, k) ==
    IF c \notin DOMAIN ind THEN Raised ELSE Ok(<<>>)

\* HybridRetriever._bm25_search: (document, score) by score descending, the
\* first k of them; sort is stable.
_bm25_search(ind, query, c, k) ==
    IF c \notin DOMAIN ind THEN Ok(<<>>)
    ELSE LET index == ind[c]
             tokenized_query == _tokenize(query)
         IN  IF tokenized_query = <<>> THEN Ok(<<>>)
             ELSE LET scores == get_scores(index.bm25, tokenized_query)
                      order == SortedIndicesDesc(scores)
                  IN  Ok(Take([i \in 1..Len(order) |->
                                  [document |-> index.documents[order[i]],
                                   score |-> scores[order[i]]]], k))


\* The chunks ingested: "C a" of document d1, "a" from the text ingestion
\* (no doc_id), and a chunk of d1 without any word.
ChunkPool ==
    {Chunk(<< <<"C">>, <<"a">> >>, "d1"),
     Chunk(<< <<"a">> >>, None),
     Chunk(<<>>, "d1")}

\* One call is given at most MaxAdded chunks, each chunk once, and a
\* collection's index holds at most MaxAdded.
MaxAdded == 2
ChunkLists ==
    UNION {{l \in [1..n -> ChunkPool] : \A i, j \in 1..n : i # j => l[i] # l[j]} :
              n \in 0..MaxAdded}

IndexQueries == {<<>>, << <<"c">> >>, << <<"A">>, <<"c">> >>}
SearchKs == {1, 2}

\* "The doc_ids of X": the doc_id values its chunks carry.
DocIdsOf(documents) ==
    {documents[i].doc_id : i \in 1..Len(documents)} \ {None}

IndexedCount(ind, c) == IF c \in DOMAIN ind THEN ind[c].doc_count ELSE 0

\* What the last operation was: its collection, whether it raised, whether
\* the collection had an index before it, the chunks a build or an add was
\* given and the indices before that add (origin); for a remove that takes out the doc_ids
\* of the chunks the add just before it put into the same collection, trip is
\* TRUE and origin holds the indices before that add.
Operation(op, c, out, added, trip, origin) ==
    [op |-> op, collection |-> c, raised |-> ~out.ok,
     had_index |-> c \in DOMAIN _indices,
     added |-> added, trip |-> trip, origin |-> origin]

Apply(out) == _indices' = IF out.ok THEN out.val ELSE _indices

BuildIndex ==
    /\ \E c \in Collections, documents \in ChunkLists, lib_ok \in BOOLEAN :
        LET out == build_bm25_index(_indices, c, documents, lib_ok)
        IN  /\ ~BuildReadsLibrary(documents) => lib_ok
            /\ Apply(out)
            /\ last_op' = Operation("build", c, out, documents, FALSE, EmptyIndices)
    /\ UNCHANGED <<state, node, history, model_calls, stream_vars, fusion, search, tasks>>

AddToIndex ==
    /\ \E c \in Collections, documents \in ChunkLists, lib_ok \in BOOLEAN :
        LET out == add_to_bm25_index(_indices, c, documents, lib_ok)
            all_docs == IF c \in DOMAIN _indices
                        THEN _indices[c].documents \o documents ELSE documents
        IN  /\ IndexedCount(_indices, c) + Len(documents) <= MaxAdded
            /\ ~BuildReadsLibrary(all_docs) => lib_ok
            /\ Apply(out)
            /\ last_op' = Operation("add", c, out, documents, FALSE, _indices)
    /\ UNCHANGED <<state, node, history, model_calls, stream_vars, fusion, search, tasks>>

RemoveFromIndex ==
    /\ \E c \in Collections, doc_ids \in SUBSET DocIdValues, lib_ok \in BOOLEAN :
        LET out == remove_from_bm25_index(_indices, c, doc_ids, lib_ok)
            remaining_docs == IF c \in DOMAIN _indices
                              THEN RemainingDocs(_indices[c].documents, doc_ids)
                              ELSE <<>>
            trip == IF last_op.op = "add"
                    THEN /\ ~last_op.raised
                         /\ last_op.collection = c
                         /\ doc_ids = DocIdsOf(last_op.added)
                    ELSE FALSE
        IN  /\ ~BuildReadsLibrary(remaining_docs) => lib_ok
            /\ Apply(out)
            /\ last_op' = Operation("remove", c, out, <<>>, trip,
                                    IF trip THEN last_op.origin ELSE EmptyIndices)
    /\ UNCHANGED <<state, node, history, model_calls, stream_vars, fusion, search, tasks>>

ClearIndex ==
    /\ \E c \in Collections :
        /\ _indices' = clear_bm25_index(_indices, c)
        /\ last_op' = Operation("clear", c, Ok(_indices), <<>>, FALSE, EmptyIndices)
    /\ UNCHANGED <<state, node, history, model_calls, stream_vars, fusion, search, tasks>>

InitIndex ==
    /\ state = create_initial_state(<<>>, MaxRetriesBound)
    /\ node = "idle"
    /\ history = <<>>
    /\ model_calls = <<>>
    /\ pc = "idle"
    /\ events = <<>>
    /\ pending = <<>>
    /\ full_answer = <<>>
    /\ received = 0
    /\ RetrieverIdle

NextIndex ==
    \/ BuildIndex
    \/ AddToIndex
    \/ RemoveFromIndex
    \/ ClearIndex

SpecIndex == InitIndex /\ [][NextIndex]_vars

\* C13 as stated: add(C, X) followed by remove(C, the doc_ids of X) leaves
\* every search on C equal to its result before the add, whether or not C had
\* an index and whatever doc_id the chunks of X carry.
C13_AddRemoveRoundTrip ==
    (last_op.op = "remove" /\ last_op.trip /\ ~last_op.raised) =>
        \A q \in IndexQueries, k \in SearchKs :
            _bm25_search(_indices, q, last_op.collection, k)
                = _bm25_search(last_op.origin, q, last_op.collection, k)


\* C14: a collection has an index only while the index holds documents (an
\* index emptied by remove or clear is gone), and the lexical search on a
\* collection without index returns an empty list and does not raise, after
\* any sequence of build, add, remove and clear.
C14_SearchWithoutIndexIsEmpty ==
    \A c \in Collections :
        IF c \in DOMAIN _indices
        THEN /\ _indices[c].documents # <<>>
             /\ _indices[c].doc_count = Len(_indices[c].documents)
        ELSE \A q \in IndexQueries, k \in SearchKs :
                 _bm25_search(_indices, q, c, k) = Ok(<<>>)

\* A remove has taken the last documents out of an index that existed.
C14_EmptiedByRemove ==
    /\ last_op.op = "remove"
    /\ ~last_op.raised
    /\ last_op.had_index
    /\ last_op.collection \notin DOMAIN _indices

(***************************************************************************)
(* HybridRetriever._rrf_fusion                                             *)
(***************************************************************************)
rrf_k == 60

\* A 1.0 / n score and sums of such, kept exact as num / den.
Fraction(num, den) == [num |-> num, den |-> den]
FracAdd(a, b) == Fraction(a.num * b.den + b.num * a.den, a.den * b.den)
FracGE(a, b) == a.num * b.den >= b.num * a.den
FracEq(a, b) == a.num * b.den = b.num * a.den

\* A retrieved Document and a ranked result (document, score).
FusionDoc(chunk_id, page_content) ==
    [chunk_id |-> chunk_id, page_content |-> page_content]
Ranked(document, score) == [document |-> document, score |-> score]

\* doc.metadata.get("chunk_id") or str(hash(doc.page_content[:200]))
FusionKey(doc) ==
    IF doc.chunk_id \notin {None, ""} THEN <<"chunk_id", doc.chunk_id>>
    ELSE <<"hash", doc.page_content>>

\* One loop of _rrf_fusion over a result list from rank on: entries is
\* doc_scores and doc_map together, in the insertion order of the keys.
RECURSIVE ScoreList(_, _, _)
ScoreList(entries, results, rank) ==
    IF results = <<>> THEN entries
    ELSE LET doc == Head(results).document
             doc_id == FusionKey(doc)
             rrf_score == Fraction(1, rrf_k + rank + 1)
             scored ==
                 IF \E i \in 1..Len(entries) : entries[i].doc_id = doc_id
                 THEN [i \in 1..Len(entries) |->
                          IF entries[i].doc_id = doc_id
                          THEN [doc_id |-> doc_id, document |-> doc,
                                score |-> FracAdd(entries[i].score, rrf_score)]
                          ELSE entries[i]]
                 ELSE Append(entries, [doc_id |-> doc_id, document |-> doc,
                                       score |-> FracAdd(Fraction(0, 1), rrf_score)])
         IN  ScoreList(scored, Tail(results), rank + 1)

\* sorted(..., key=score, reverse=True): stable, by score descending.
RECURSIVE InsertByScore(_, _)
InsertByScore(sorted_items, item) ==
    IF sorted_items = <<>> THEN <<item>>
    ELSE IF FracGE(Head(sorted_items).score, item.score)
         THEN <<Head(sorted_items)>> \o InsertByScore(Tail(sorted_items), item)
         ELSE <<item>> \o sorted_items

RECURSIVE SortByScore(_)
SortByScore(items) ==
    IF items = <<>> THEN <<>>
    ELSE InsertByScore(SortByScore(SubSeq(items, 1, Len(items) - 1)),
                       items[Len(items)])

\* Mutant: a fusion that adds up the scores of the two retrievers.
RECURSIVE SumScores(_, _)
SumScores(entries, results) ==
    IF results = <<>> THEN entries
    ELSE LET doc == Head(results).document
             doc_id == FusionKey(doc)
             own == Fraction(Head(results).score, 1)
             scored ==
                 IF \E i \in 1..Len(entries) : entries[i].doc_id = doc_id
                 THEN [i \in 1..Len(entries) |->
                          IF entries[i].doc_id = doc_id
                          THEN [doc_id |-> doc_id, document |-> doc,
                                score |-> FracAdd(entries[i].score, own)]
                          ELSE entries[i]]
                 ELSE Append(entries, [doc_id |-> doc_id, document |-> doc, score |-> own])
         IN  SumScores(scored, Tail(results))

_rrf_fusion_by_score(vector_results, bm25_results, k) ==
    LET sorted_items == SortByScore(SumScores(SumScores(<<>>, vector_results), bm25_results))
        top == Take(sorted_items, k)
    IN  [i \in 1..Len(top) |-> Ranked(top[i].document, top[i].score)]

\* Mutant: a chunk keeps the score of the first list it is found in.
RECURSIVE ScoreListNoSum(_, _, _)
ScoreListNoSum(entries, results, rank) ==
    IF results = <<>> THEN entries
    ELSE LET doc == Head(results).document
             doc_id == FusionKey(doc)
             rrf_score == Fraction(1, rrf_k + rank + 1)
             scored ==
                 IF \E i \in 1..Len(entries) : entries[i].doc_id = doc_id
                 THEN entries
                 ELSE Append(entries, [doc_id |-> doc_id, document |-> doc,
                                       score |-> rrf_score])
         IN  ScoreListNoSum(scored, Tail(results), rank + 1)

_rrf_fusion_no_sum(vector_results, bm25_results, k) ==
    LET sorted_items ==
            SortByScore(ScoreListNoSum(ScoreListNoSum(<<>>, vector_results, 0),
                                       bm25_results, 0))
        top == Take(sorted_items, k)
    IN  [i \in 1..Len(top) |-> Ranked(top[i].document, top[i].score)]

_rrf_fusion(vector_results, bm25_results, k) ==
    LET doc_scores == ScoreList(ScoreList(<<>>, vector_results, 0), bm25_results, 0)
        sorted_items == SortByScore(doc_scores)
        top == Take(sorted_items, k)
    IN  [i \in 1..Len(top) |-> Ranked(top[i].document, top[i].score)]


\* The chunks the two retrievers return: two with a chunk_id, one without.
FusionDocs == {FusionDoc("A", "x"), FusionDoc("B", "y"), FusionDoc(None, "z")}

\* A retriever returns at most MaxRanked chunks, each once.
MaxRanked == 2
Rankings ==
    UNION {{l \in [1..n -> FusionDocs] : \A i, j \in 1..n : i # j => l[i] # l[j]} :
              n \in 0..MaxRanked}

\* The score a retriever gives the chunk at position i: a similarity that
\* falls slowly (dense) or a BM25 score that falls fast.
ScoreProfiles == {"dense", "bm25"}
ScoreAt(profile, i) == IF profile = "dense" THEN 10 - i ELSE 40 - 10 * i
WithScores(ranking, profile) ==
    [i \in 1..Len(ranking) |-> Ranked(ranking[i], ScoreAt(profile, i))]

FusionKs == {1, 3}

Fuse ==
    /\ ~fusion.called
    /\ fusion' = [fusion EXCEPT
                     !.called = TRUE,
                     !.results = _rrf_fusion(fusion.vector_results,
                                             fusion.bm25_results, fusion.k)]
    /\ UNCHANGED <<state, node, history, model_calls, stream_vars, _indices, last_op, search, tasks>>

InitFusion ==
    /\ state = create_initial_state(<<>>, MaxRetriesBound)
    /\ node = "idle"
    /\ history = <<>>
    /\ model_calls = <<>>
    /\ pc = "idle"
    /\ events = <<>>
    /\ pending = <<>>
    /\ full_answer = <<>>
    /\ received = 0
    /\ _indices = EmptyIndices
    /\ last_op = NoOperation
    /\ tasks = NoTasks
    /\ search = NoSearch
    /\ \E v \in Rankings, b \in Rankings, p \in ScoreProfiles, k \in FusionKs :
        fusion = [called |-> FALSE,
                  vector_results |-> WithScores(v, p),
                  bm25_results |-> WithScores(b, "bm25"),
                  k |-> k,
                  results |-> <<>>]

NextFusion == Fuse

SpecFusion == InitFusion /\ [][NextFusion]_vars

\* The documents of a result list, in order.
FusedOrder(results) == [i \in 1..Len(results) |-> results[i].document]

\* All scores of a list multiplied by a positive constant.
Scales == {2, 3}
Scaled(results, c) ==
    [i \in 1..Len(results) |-> Ranked(results[i].document, c * results[i].score)]

\* C15: reciprocal rank fusion is rank-only: multiplying all scores of the
\* dense list, or all scores of the lexical list, by a positive constant
\* leaves the order of the output of _rrf_fusion unchanged.
C15_FusionRankOnly ==
    fusion.called =>
        \A c \in Scales :
            /\ FusedOrder(_rrf_fusion(Scaled(fusion.vector_results, c),
                                      fusion.bm25_results, fusion.k))
                   = FusedOrder(fusion.results)
            /\ FusedOrder(_rrf_fusion(fusion.vector_results,
                                      Scaled(fusion.bm25_results, c), fusion.k))
                   = FusedOrder(fusion.results)

\* Two lists that rank different chunks first have been fused.
C15_FusedTwoRankings ==
    /\ fusion.called
    /\ Len(fusion.vector_results) = 1
    /\ Len(fusion.bm25_results) = 1
    /\ fusion.vector_results[1].document # fusion.bm25_results[1].document
    /\ Len(fusion.results) = 2


\* The documents of a ranked list, and the 1-based rank of one of them.
DocsIn(results) == {results[i].document : i \in 1..Len(results)}
RankIn(results, doc) == CHOOSE i \in 1..Len(results) : results[i].document = doc

\* 1 / (rrf_k + rank) from a list, nothing from a list without the chunk.
ListShare(results, doc) ==
    IF doc \in DocsIn(results)
    THEN Fraction(1, rrf_k + RankIn(results, doc)) ELSE Fraction(0, 1)
ExpectedScore(doc) ==
    FracAdd(ListShare(fusion.vector_results, doc), ListShare(fusion.bm25_results, doc))

FusedDocs == DocsIn(fusion.vector_results) \cup DocsIn(fusion.bm25_results)

\* C16: _rrf_fusion gives each chunk the sum, over the lists that contain
\* it, of 1 / (rrf_k + rank) with rrf_k = 60, lists each chunk once, and
\* orders the output (the k best) by that sum descending; with the dense
\* ranking [B, A] and a lexical ranking of A alone, A is placed above B.
C16_FusionScores ==
    fusion.called =>
        LET results == fusion.results
        IN  /\ rrf_k = 60
            /\ \A i \in 1..Len(results) :
                   FracEq(results[i].score, ExpectedScore(results[i].document))
            /\ \A i, j \in 1..Len(results) :
                   i # j => results[i].document # results[j].document
            /\ \A i, j \in 1..Len(results) :
                   i < j => FracGE(results[i].score, results[j].score)
            /\ DocsIn(results) \subseteq FusedDocs
            /\ Len(results) = IF Cardinality(FusedDocs) < fusion.k
                              THEN Cardinality(FusedDocs) ELSE fusion.k
            /\ \A doc \in FusedDocs \ DocsIn(results) :
                   \A i \in 1..Len(results) :
                       FracGE(results[i].score, ExpectedScore(doc))
            /\ (/\ FusedOrder(fusion.vector_results)
                       = <<FusionDoc("B", "y"), FusionDoc("A", "x")>>
                /\ FusedOrder(fusion.bm25_results) = <<FusionDoc("A", "x")>>
                /\ fusion.k >= 2)
               => FusedOrder(results) = <<FusionDoc("A", "x"), FusionDoc("B", "y")>>

\* The dense ranking [B, A] and the lexical ranking [A] have been fused, and
\* A, found in both, comes first.
C16_FoundInBothWins ==
    /\ fusion.called
    /\ FusedOrder(fusion.vector_results) = <<FusionDoc("B", "y"), FusionDoc("A", "x")>>
    /\ FusedOrder(fusion.bm25_results) = <<FusionDoc("A", "x")>>
    /\ FusedOrder(fusion.results) = <<FusionDoc("A", "x"), FusionDoc("B", "y")>>

(***************************************************************************)
(* The groundedness check                                                  *)
(***************************************************************************)
\* check_hallucination is about to run on a simple query whose best
\* relevant document scores at least 70%.
SimpleHighConfidence ==
    /\ node = "check_hallucination"
    /\ state.query_complexity = "simple"
    /\ TopScore(state.relevant_documents) >= 70

\* C17: for a simple query whose top relevant-document score is >= 70%,
\* check_hallucination makes no model call and no fast lexical check (the
\* scores it records are the retrieval score), marks the answer grounded and
\* still increments iteration by one.
C17_SimpleHighConfidenceSkips ==
    [][SimpleHighConfidence =>
          /\ node' # "RAISED"
          /\ model_calls' = model_calls
          /\ state'.processing_steps =
                 Append(state.processing_steps, "hallucination_skip_simple_highconf")
          /\ state'.is_grounded
          /\ state'.skip_llm_hallucination_check
          /\ state'.fast_groundedness_score = TopScore(state.relevant_documents)
          /\ state'.groundedness_score = TopScore(state.relevant_documents)
          /\ state'.iteration = state.iteration + 1]_vars

\* The fast path was taken by the first check of a run, which made no call
\* to the model for it.
C17_SkippedCheck ==
    /\ Steps # <<>>
    /\ LastStep = "hallucination_skip_simple_highconf"
    /\ state.iteration = 1
    /\ state.is_grounded
    /\ ~(\E i \in 1..Len(model_calls) : model_calls[i] = "HALLUCINATION_CHECK_PROMPT")


(***************************************************************************)
(* astream under cancellation                                              *)
(***************************************************************************)
\* The places where the generator is suspended once it has started: at an
\* awaited node or model stream, or at a yield between two events.
SuspendedAt ==
    {"classify_intent", "handle_non_rag_intent", "handler_generating",
     "handler_tokens", "route_query", "rewrite_query", "retrieve",
     "grade_documents", "rag_generating", "generate", "streaming",
     "check_hallucination", "save_to_memory"}

\* The task that consumes the stream is cancelled: asyncio.CancelledError is
\* raised at the await where astream is suspended (GeneratorExit at a yield).
\* Neither is an Exception, so `except Exception` of astream and of
\* generate_stream lets it through: the generator unwinds and yields nothing.
StreamCancelled ==
    /\ pc \in SuspendedAt
    /\ pc' = "cancelled"
    /\ UNCHANGED <<state, node, history, model_calls, events, pending, full_answer,
                   received, retriever_vars, tasks>>

NextCancel ==
    \/ NextStream
    \/ StreamCancelled

SpecCancel == InitStream /\ [][NextCancel]_vars

\* C18: a stream cancelled while astream is suspended has emitted exactly one
\* error event, as its last event, and no done event.
C18_CancelledEmitsOneError ==
    pc = "cancelled" =>
        /\ CountKind("error") = 1
        /\ CountKind("done") = 0
        /\ Kinds[Len(events)] = "error"


(***************************************************************************)
(* Generation that fails after a successful retrieval                      *)
(***************************************************************************)
\* POST /chat: the result of aquery becomes a ChatResponse; an exception of
\* aquery becomes HTTPException(status_code=500, detail=str(e)).
chat(n, st) ==
    IF n = "RAISED"
    THEN [status_code |-> 500, detail |-> "str(e)"]
    ELSE [status_code |-> 200, answer |-> st.answer, was_grounded |-> st.is_grounded]

\* A query is answered either by aquery or by astream.
InitAnswer ==
    \/ Init
    \/ InitStream

NextAnswer ==
    \/ Next
    \/ NextStream

SpecAnswer == InitAnswer /\ [][NextAnswer]_vars

KindCount(evs, k) == Cardinality({i \in 1..Len(evs) : Kind(evs[i]) = k})

\* The step that leaves the model's stream of the RAG path without a further
\* chunk and without its normal end: the call for generation has failed.
StreamGenerationFails ==
    /\ pc = "streaming"
    /\ pc' \notin {"streaming", "check_hallucination"}

\* The step that leaves the generate node without an answer to check.
GenerateFails ==
    /\ node = "generate"
    /\ node' # "check_hallucination"

\* C19: when generation fails after retrieval, astream yields one error event
\* as its last event, no done event, and nothing after it; aquery raises and
\* the chat route answers with status 500.
C19_GenerationFailureIsExplicit ==
    [][/\ StreamGenerationFails =>
            /\ events' = Append(events, ErrorEvent)
            /\ KindCount(events', "error") = 1
            /\ KindCount(events', "done") = 0
            /\ pc' = "closed"
       /\ pc = "closed" => UNCHANGED vars
       /\ GenerateFails =>
            /\ node' = "RAISED"
            /\ chat(node', state').status_code = 500
       /\ node = "RAISED" => UNCHANGED vars]_vars

\* A stream that failed in generation after a token reached the caller.
C19_StreamFailedInGeneration ==
    /\ pc = "closed"
    /\ Len(events) >= 2
    /\ Kinds[Len(events)] = "error"
    /\ Kinds[Len(events) - 1] = "token"
    /\ Len(state.relevant_documents) > 0

\* A non-streaming query that raised in generate, with relevant documents.
C19_QueryFailedInGeneration ==
    /\ node = "RAISED"
    /\ Len(model_calls) > 0
    /\ model_calls[Len(model_calls)] = GenerationPrompt(state)
    /\ Len(state.relevant_documents) > 0
    /\ chat(node, state).status_code = 500


(***************************************************************************)
(* A groundedness verdict that cannot be parsed                            *)
(***************************************************************************)
\* C20: in the ambiguous band, a reply of the model with no GROUNDED line and
\* no SCORE line leaves groundedness_score at the fast score, sets
\* is_grounded and sends the run on to save_to_memory, never to a retry.
C20_MalformedVerdictIsGrounded ==
    node = "check_hallucination" =>
        \A fast_score \in FastScoreChoices(state) :
            CheckCallsLlm(state, fast_score) =>
                LET result == check_hallucination(state, fast_score, MalformedVerdict)
                IN  /\ result.groundedness_score = fast_score
                    /\ result.is_grounded
                    /\ should_retry(GraphMerge(state, result)) = "finish"


(***************************************************************************)
(* The rewrite counter                                                     *)
(***************************************************************************)
\* C21: in every state of an aquery run, rewrite_count <= max_iterations,
\* whether the rewrite was requested by the router or by grade_documents.
C21_RewriteCountWithinMax ==
    state.rewrite_count <= state.max_iterations


(***************************************************************************)
(* A lexical search during ingestion                                       *)
(***************************************************************************)
\* A collection's index, NoIndex when it has none.
NoIndex == [bm25 |-> <<>>, documents |-> <<>>, doc_count |-> 0]
IndexOf(ind, c) == IF c \in DOMAIN ind THEN ind[c] ELSE NoIndex

\* The collection that is searched while ingestion writes to it.
BusyCollections == {"chat_1"}

\* The tasks of IngestionService write the index between two awaits, in one
\* call of the retriever that has no await itself; an exception of the call
\* leaves the indices as they were. A search that is waiting for the dense
\* search is noted as overtaken when the index of its collection changes; a
\* search that has read the index returns without another await, so no task
\* runs before it has returned.
Ingested(c, out) ==
    /\ search.at # "done"
    /\ Apply(out)
    /\ search' = IF /\ search.at = "vector"
                    /\ search.collection = c
                    /\ out.ok
                    /\ IndexOf(out.val, c) # IndexOf(_indices, c)
                 THEN [search EXCEPT !.written = TRUE]
                 ELSE search
    /\ UNCHANGED <<state, node, history, model_calls, stream_vars, last_op, fusion, tasks>>

\* IngestionService._update_bm25_index, after a file, texts or a URL was
\* chunked and stored.
UpdateBm25Index ==
    \E c \in BusyCollections, new_chunks \in ChunkLists, lib_ok \in BOOLEAN :
        LET all_docs == IndexOf(_indices, c).documents \o new_chunks
        IN  /\ Len(all_docs) <= MaxAdded
            /\ ~BuildReadsLibrary(all_docs) => lib_ok
            /\ Ingested(c, add_to_bm25_index(_indices, c, new_chunks, lib_ok))

\* IngestionService.rebuild_bm25_index: build from the chunks the vector
\* store holds, clear when it holds none.
RebuildBm25Index ==
    \E c \in BusyCollections, all_chunks \in ChunkLists, lib_ok \in BOOLEAN :
        /\ ~BuildReadsLibrary(all_chunks) => lib_ok
        /\ Ingested(c, IF all_chunks # <<>>
                       THEN build_bm25_index(_indices, c, all_chunks, lib_ok)
                       ELSE Ok(clear_bm25_index(_indices, c)))

\* IngestionService.delete_document, when the vector store deleted chunks.
DeleteDocument ==
    \E c \in BusyCollections, doc_id \in DocIdValues, lib_ok \in BOOLEAN :
        /\ ~BuildReadsLibrary(RemainingDocs(IndexOf(_indices, c).documents, {doc_id}))
               => lib_ok
        /\ Ingested(c, remove_from_bm25_index(_indices, c, {doc_id}, lib_ok))

\* HybridRetriever.search runs on the event loop: it is suspended in
\* `await self.vector_store.similarity_search_with_score(...)`, where the tasks
\* of ingestion may run, and then calls _bm25_search, which has no await.
SearchStarts ==
    /\ search.at = "idle"
    /\ \E query \in IndexQueries, c \in BusyCollections, k \in SearchKs :
        search' = [at |-> "vector", query |-> query, collection |-> c, k |-> k,
                   previous |-> IndexOf(_indices, c), written |-> FALSE]
    /\ UNCHANGED <<state, node, history, model_calls, stream_vars, _indices, last_op, fusion, tasks>>

\* index = self._indices[collection_name]; the scores and the documents are
\* both taken from that one object.
SearchLexical ==
    /\ search.at = "vector"
    /\ search' = [at |-> "done", query |-> search.query,
                  collection |-> search.collection, k |-> search.k,
                  previous |-> search.previous, written |-> search.written,
                  seen |-> IndexOf(_indices, search.collection),
                  bm25_results |-> _bm25_search(_indices, search.query,
                                                search.collection, search.k)]
    /\ UNCHANGED <<state, node, history, model_calls, stream_vars, _indices, last_op, fusion, tasks>>

SearchReturns ==
    /\ search.at = "done"
    /\ search' = NoSearch
    /\ UNCHANGED <<state, node, history, model_calls, stream_vars, _indices, last_op, fusion, tasks>>

NextSearch ==
    \/ UpdateBm25Index
    \/ RebuildBm25Index
    \/ DeleteDocument
    \/ SearchStarts
    \/ SearchLexical
    \/ SearchReturns

SpecSearch == InitIndex /\ [][NextSearch]_vars

\* An index whose scorer was built from exactly the documents it holds.
OneBuild(index) ==
    /\ index.bm25 = Corpus(index.documents)
    /\ index.doc_count = Len(index.documents)

\* The (document, score) pairs the scorer and the documents of one index give.
ScoredBy(index, query, k) ==
    IF index = NoIndex THEN Ok(<<>>)
    ELSE _bm25_search(SetIndex(EmptyIndices, "c", index), query, "c", k)

\* C22: every published index is one complete build, and a lexical search that
\* ran while the index of its collection was added to, removed from or rebuilt
\* has scored with one complete index, the previous one or a new one, and
\* paired the scores with the documents of that same index.
C22_SearchSeesOneBuild ==
    /\ \A c \in DOMAIN _indices : OneBuild(_indices[c])
    /\ search.at = "done" =>
        /\ OneBuild(search.seen)
        /\ search.seen # search.previous => search.written
        /\ search.bm25_results = ScoredBy(search.seen, search.query, search.k)

\* A search that found documents in an index published while it was waiting.
C22_SearchedNewIndex ==
    /\ search.at = "done"
    /\ search.written
    /\ search.previous # NoIndex
    /\ search.seen # NoIndex
    /\ search.seen # search.previous
    /\ search.bm25_results.val # <<>>


(***************************************************************************)
(* The decision after grade_documents                                      *)
(***************************************************************************)
\* C23: after grade_documents the run goes to generate when rewrite_count >=
\* max_iterations, else when the collection is empty, else when there are
\* relevant documents, and to rewrite_query otherwise; a rewrite that returns
\* is followed by retrieve, and retrieve by grade_documents.
C23_DecisionAfterGrading ==
    [][/\ node = "grade_documents" =>
            node' = IF state'.rewrite_count >= state'.max_iterations THEN "generate"
                    ELSE IF state'.collection_empty THEN "generate"
                    ELSE IF state'.relevant_documents # <<>> THEN "generate"
                    ELSE "rewrite_query"
       /\ (node = "rewrite_query" /\ node' # "RAISED") => node' = "retrieve"
       /\ node = "retrieve" => node' = "grade_documents"]_vars

\* A simple query was rewritten on the request of grade_documents until the
\* budget was used up, and goes to generate without any relevant document.
C23_ForcedGenerate ==
    /\ node = "generate"
    /\ state.query_complexity = "simple"
    /\ state.rewrite_count >= 1
    /\ state.rewrite_count >= state.max_iterations
    /\ state.relevant_documents = <<>>
    /\ ~state.collection_empty


(***************************************************************************)
(* The branches out of route_query                                         *)
(***************************************************************************)
\* The node entered after route_query, for a state that reaches it.
BranchAfterRouting(st) ==
    route_query_edges[should_rewrite(GraphMerge(st, route_query(st)))]

\* The branches taken over all the questions and budgets of the model.
BranchesTaken ==
    {BranchAfterRouting(create_initial_state(question, max_iterations)) :
        question \in Questions, max_iterations \in 0..MaxRetriesBound}

\* C24: from route_query the run takes one of the four branches rewrite_query,
\* retrieve, retrieve_sequential and handle_garbage_query, and each of the
\* four is taken for some input.
C24_FourBranchesTaken ==
    node = "route_query" =>
        /\ BranchAfterRouting(state) \in
                {"rewrite_query", "retrieve", "retrieve_sequential", "handle_garbage_query"}
        /\ BranchesTaken =
                {"rewrite_query", "retrieve", "retrieve_sequential", "handle_garbage_query"}

\* What holds instead: no run enters retrieve_sequential or
\* handle_garbage_query.
OnlyTwoBranches ==
    /\ node \notin {"retrieve_sequential", "handle_garbage_query"}
    /\ BranchesTaken = {"rewrite_query", "retrieve"}


(***************************************************************************)
(* The bands of the fast groundedness score                                *)
(***************************************************************************)
\* Every score _fast_groundedness_check can return, in percent.
AllFastScores == 0..100
VerdictsRead == {v.val : v \in LlmVerdicts \ {Raised}}

\* C25: when check_hallucination does not return before the fast check, a
\* score >= 0.80 gives is_grounded without a model call, a score < 0.30 gives
\* not grounded with hallucination_details set and without a model call, and
\* the model is called for exactly the scores with 0.30 <= score < 0.80;
\* outside the band the reply of the model has no part in the result.
C25_FastScoreBands ==
    (/\ node = "check_hallucination"
     /\ ~SkipsForNoDocuments(state)
     /\ ~SkipsForSimpleHighConfidence(state)) =>
        \A fast_score \in AllFastScores :
            /\ CheckCallsLlm(state, fast_score) <=> (30 <= fast_score /\ fast_score < 80)
            /\ fast_score >= 80 =>
                \A reply \in VerdictsRead :
                    LET result == check_hallucination(state, fast_score, reply)
                    IN  /\ result.is_grounded
                        /\ result.groundedness_score = fast_score
                        /\ result.skip_llm_hallucination_check
            /\ fast_score < 30 =>
                \A reply \in VerdictsRead :
                    LET result == check_hallucination(state, fast_score, reply)
                    IN  /\ ~result.is_grounded
                        /\ result.groundedness_score = fast_score
                        /\ result.hallucination_details # None
                        /\ result.skip_llm_hallucination_check

\* A first check that failed on the fast score alone: no call to the model.
C25_FastFail ==
    /\ Steps # <<>>
    /\ LastStep = "hallucination_fast_fail"
    /\ state.iteration = 1
    /\ ~state.is_grounded
    /\ state.fast_groundedness_score = 29
    /\ ~(\E i \in 1..Len(model_calls) : model_calls[i] = "HALLUCINATION_CHECK_PROMPT")


(***************************************************************************)
(* HybridRetriever.search and search_with_parent_expansion                 *)
(***************************************************************************)
\* A chunk as the retrievers return it: the chunker gives every chunk its own
\* chunk_id; a child chunk carries parent_id and parent_context.
ChildChunk(chunk_id, parent_id) ==
    [chunk_id |-> chunk_id, page_content |-> <<"text of", chunk_id>>,
     parent_id |-> parent_id, parent_context |-> <<"context of", parent_id>>,
     expanded_from_child |-> FALSE]
PlainChunk(chunk_id) ==
    [chunk_id |-> chunk_id, page_content |-> <<"text of", chunk_id>>,
     parent_id |-> None, parent_context |-> None, expanded_from_child |-> FALSE]

\* `if parent_id:` is false for None and for "".
HasParent(doc) == doc.parent_id \notin {None, ""}

\* Mutant: a dense search that fails leaves the search without results.
HybridRetriever_search_fails_closed(vector, bm25_results, k) ==
    IF ~vector.ok THEN <<>>
    ELSE IF vector.val = <<>> /\ bm25_results = <<>> THEN <<>>
    ELSE IF vector.val = <<>> THEN Take(bm25_results, k)
    ELSE IF bm25_results = <<>> THEN Take(vector.val, k)
    ELSE _rrf_fusion(vector.val, bm25_results, k)

\* vector: the outcome of the dense search, [] when it raises.
HybridRetriever_search(vector, bm25_results, k) ==
    LET vector_results == IF vector.ok THEN vector.val ELSE <<>>
    IN  IF vector_results = <<>> /\ bm25_results = <<>> THEN <<>>
        ELSE IF vector_results = <<>> THEN Take(bm25_results, k)
        ELSE IF bm25_results = <<>> THEN Take(vector_results, k)
        ELSE _rrf_fusion(vector_results, bm25_results, k)

\* Document(page_content=parent_context, metadata={**doc.metadata, ...}).
ExpandedDoc(doc) ==
    [doc EXCEPT !.page_content = doc.parent_context, !.expanded_from_child = TRUE]

\* Mutant: every child is expanded, whether its parent was met before or not.
RECURSIVE SeenParentsNoDedup(_, _)
SeenParentsNoDedup(results, seen) ==
    IF results = <<>> THEN <<>>
    ELSE LET doc == Head(results).document
         IN  IF HasParent(doc)
             THEN <<Ranked(ExpandedDoc(doc), Head(results).score)>>
                      \o SeenParentsNoDedup(Tail(results), seen)
             ELSE SeenParentsNoDedup(Tail(results), seen)

\* seen_parents.values(): the first result of each parent, in the order the
\* parents were first met.
RECURSIVE SeenParents(_, _)
SeenParents(results, seen) ==
    IF results = <<>> THEN <<>>
    ELSE LET doc == Head(results).document
         IN  IF HasParent(doc) /\ doc.parent_id \notin seen
             THEN <<Ranked(ExpandedDoc(doc), Head(results).score)>>
                      \o SeenParents(Tail(results), seen \cup {doc.parent_id})
             ELSE SeenParents(Tail(results), seen)

ResultHasNoParent(r) == ~HasParent(r.document)

search_with_parent_expansion(vector, bm25_results, initial_k, final_k) ==
    LET results == HybridRetriever_search(vector, bm25_results, initial_k)
        all_docs == SeenParents(results, {}) \o SelectSeq(results, ResultHasNoParent)
    IN  Take(SortByScore(all_docs), final_k)

\* The chunks of the collection: two children of one parent, two chunks
\* without parent.
ExpansionChunks ==
    {ChildChunk("c1", "p1"), ChildChunk("c2", "p1"), PlainChunk("c3"), PlainChunk("c4")}
ExpansionRankings ==
    UNION {{l \in [1..n -> ExpansionChunks] : \A i, j \in 1..n : i # j => l[i] # l[j]} :
              n \in 0..MaxRanked}

\* The scores of a ranked list: distances that rise with the rank or
\* similarities that fall (dense), BM25 scores that fall or are all equal.
DenseProfiles == {"distance", "similarity"}
LexicalProfiles == {"falling", "equal"}
ProfileScore(profile, i) ==
    CASE profile = "distance" -> Fraction(i, 10)
      [] profile = "similarity" -> Fraction(10 - i, 10)
      [] profile = "falling" -> Fraction(40 - 10 * i, 1)
      [] profile = "equal" -> Fraction(0, 1)
Scored(ranking, profile) ==
    [i \in 1..Len(ranking) |-> Ranked(ranking[i], ProfileScore(profile, i))]

ExpansionKs == {1, 3}

\* The vector store returns at most the k results it is asked for.
FallbackOutcomes(k) == {Ok(Take(l, k)) : l \in VectorLists} \cup {Raised}

\* A call of search_with_parent_expansion; RAGNodes.retrieve calls it with
\* final_k = initial_k.
RetrieveHybrid ==
    /\ search.at = "called"
    /\ search' = [search EXCEPT
                     !.at = "returned",
                     !.results = search_with_parent_expansion(
                                     search.vector, search.bm25_results,
                                     search.initial_k, search.final_k)]
    /\ UNCHANGED <<state, node, history, model_calls, stream_vars, _indices, last_op, fusion, tasks>>

\* RAGNodes.retrieve, when the hybrid search gave no results: the vector-only
\* search with k = initial_k, then _expand_to_parents.
RetrieveFallback ==
    /\ search.at = "returned"
    /\ search.final_k = search.initial_k
    /\ search.results = <<>>
    /\ \E vector \in FallbackOutcomes(search.initial_k) :
        search' = [search EXCEPT
                      !.at = "fallback",
                      !.fallback_results = IF vector.ok THEN vector.val ELSE <<>>,
                      !.fallback = IF vector.ok THEN _expand_to_parents(vector.val)
                                   ELSE <<>>]
    /\ UNCHANGED <<state, node, history, model_calls, stream_vars, _indices, last_op, fusion, tasks>>

InitExpansion ==
    /\ state = create_initial_state(<<>>, MaxRetriesBound)
    /\ node = "idle"
    /\ history = <<>>
    /\ model_calls = <<>>
    /\ pc = "idle"
    /\ events = <<>>
    /\ pending = <<>>
    /\ full_answer = <<>>
    /\ received = 0
    /\ _indices = EmptyIndices
    /\ last_op = NoOperation
    /\ tasks = NoTasks
    /\ fusion = NoFusion
    /\ \E v \in ExpansionRankings, vp \in DenseProfiles, vector_ok \in BOOLEAN,
          b \in ExpansionRankings, bp \in LexicalProfiles,
          initial_k \in ExpansionKs, final_k \in ExpansionKs :
        /\ ~vector_ok => (v = <<>> /\ vp = "distance")
        /\ b = <<>> => bp = "falling"
        /\ search = [at |-> "called",
                     vector |-> IF vector_ok THEN Ok(Scored(v, vp)) ELSE Raised,
                     bm25_results |-> Scored(b, bp),
                     initial_k |-> initial_k, final_k |-> final_k,
                     results |-> <<>>, fallback_results |-> <<>>, fallback |-> <<>>]

NextExpansion ==
    \/ RetrieveHybrid
    \/ RetrieveFallback

SpecExpansion == InitExpansion /\ [][NextExpansion]_vars

\* The position of a chunk in a ranked list, 0 when it is not in it.
RankOf(ranked, chunk_id) ==
    IF \E i \in 1..Len(ranked) : ranked[i].document.chunk_id = chunk_id
    THEN CHOOSE i \in 1..Len(ranked) : ranked[i].document.chunk_id = chunk_id
    ELSE 0

VectorResults == IF search.vector.ok THEN search.vector.val ELSE <<>>
OnlySource ==
    IF VectorResults = <<>> THEN search.bm25_results ELSE VectorResults

\* C26: when only one of the dense and the lexical search yields results, the
\* documents returned for grading are among that source's top initial_k and
\* stand in the order of that source's ranked list, whatever its scores are.
C26_SingleSourceKeepsRank ==
    (/\ search.at = "returned"
     /\ (VectorResults = <<>>) # (search.bm25_results = <<>>)) =>
        /\ \A i \in 1..Len(search.results) :
               RankOf(OnlySource, search.results[i].document.chunk_id)
                   \in 1..search.initial_k
        /\ \A i, j \in 1..Len(search.results) :
               i < j => RankOf(OnlySource, search.results[i].document.chunk_id)
                            < RankOf(OnlySource, search.results[j].document.chunk_id)


(***************************************************************************)
(* Parent expansion                                                        *)
(***************************************************************************)
\* What search returned before the expansion.
Found ==
    HybridRetriever_search(search.vector, search.bm25_results, search.initial_k)

FirstWithParent(results, parent_id) ==
    CHOOSE i \in 1..Len(results) :
        /\ results[i].document.parent_id = parent_id
        /\ \A j \in 1..(i - 1) : results[j].document.parent_id # parent_id

ParentsFound == {Found[i].document.parent_id : i \in {j \in 1..Len(Found) : HasParent(Found[j].document)}}
WithoutParentFound == {i \in 1..Len(Found) : ~HasParent(Found[i].document)}

\* The same for the hits of the vector-only fallback.
FirstHitOfParent(hits, parent_id) ==
    CHOOSE i \in 1..Len(hits) :
        /\ hits[i].parent_id = parent_id
        /\ \A j \in 1..(i - 1) : hits[j].parent_id # parent_id

\* C27: the list returned by parent expansion holds each parent_id at most
\* once, the parent being represented by its first (best-ranked) child with
\* the parent_context as content; chunks without parent_id are passed through
\* as they are, all of them unless the list is cut; the list is no longer than
\* final_k. The same holds for the vector-only fallback of retrieve.
C27_ParentExpansion ==
    /\ search.at = "returned" =>
        LET res == search.results
        IN  /\ Len(res) <= search.final_k
            /\ \A i, j \in 1..Len(res) :
                   (i # j /\ HasParent(res[i].document) /\ HasParent(res[j].document))
                       => res[i].document.parent_id # res[j].document.parent_id
            /\ \A i \in 1..Len(res) :
                   IF HasParent(res[i].document)
                   THEN LET first == Found[FirstWithParent(Found, res[i].document.parent_id)]
                        IN  /\ res[i].document = ExpandedDoc(first.document)
                            /\ res[i].document.page_content = first.document.parent_context
                            /\ res[i].score = first.score
                   ELSE res[i] \in Range(Found)
            /\ Len(res) = IF Cardinality(ParentsFound) + Cardinality(WithoutParentFound)
                                 <= search.final_k
                          THEN Cardinality(ParentsFound) + Cardinality(WithoutParentFound)
                          ELSE search.final_k
    /\ search.at = "fallback" =>
        LET res == search.fallback
            hits == search.fallback_results
        IN  /\ Len(res) <= search.final_k
            /\ \A i, j \in 1..Len(res) :
                   (i # j /\ res[i].parent_id # None) => res[i].parent_id # res[j].parent_id
            /\ \A i \in 1..Len(res) :
                   IF res[i].parent_id # None
                   THEN res[i] = hits[FirstHitOfParent(hits, res[i].parent_id)]
                   ELSE res[i] \in Range(hits)
            /\ Cardinality({i \in 1..Len(res) : res[i].parent_id = None})
                   = Cardinality({i \in 1..Len(hits) : hits[i].parent_id = None})

\* Two children of one parent were found, and the expansion returned their
\* parent once, with a chunk without parent beside it.
C27_TwoChildrenOneParent ==
    /\ search.at = "returned"
    /\ Cardinality({i \in 1..Len(Found) : HasParent(Found[i].document)}) = 2
    /\ Cardinality({i \in 1..Len(search.results) :
                       HasParent(search.results[i].document)}) = 1
    /\ \E i \in 1..Len(search.results) : ~HasParent(search.results[i].document)


(***************************************************************************)
(* A build replaces the index                                              *)
(***************************************************************************)
\* C28: after build_bm25_index(collection, chunks), for every chunk list, the
\* empty one included, the lexical search on the collection returns only
\* chunks of the list just passed.
C28_BuildReplacesIndex ==
    (last_op.op = "build" /\ ~last_op.raised) =>
        \A q \in IndexQueries, k \in SearchKs :
            LET found == _bm25_search(_indices, q, last_op.collection, k).val
            IN  \A i \in 1..Len(found) : found[i].document \in Range(last_op.added)


(***************************************************************************)
(* Exceptions in the classifier layers                                     *)
(***************************************************************************)
\* C29: an exception in a classifier layer is not fatal: when embedding the
\* query raises, classification falls through to the model layer, and the
\* classify_intent stage never passes a layer's exception on to the pipeline.
C29_ClassifierNeverPropagates ==
    [][node = "classify_intent" => node' # "RAISED"]_vars


(***************************************************************************)
(* A failing history read                                                  *)
(***************************************************************************)
\* The step of rewrite_query or generate in which memory.get_history raises:
\* the stage reads the history before it calls the model, so the model is not
\* called in it.
HistoryReadRaises ==
    /\ node \in {"rewrite_query", "generate"}
    /\ model_calls' = model_calls

\* C30: a failing history read is taken as "no history" at every stage that
\* reads history: the stage goes on as for an empty session, so the run is not
\* ended by the read.
C30_FailedReadIsNoHistory ==
    [][HistoryReadRaises => node' # "RAISED"]_vars


(***************************************************************************)
(* A question against an empty or missing collection                       *)
(***************************************************************************)
\* A search that found nothing: it returned no chunk or it raised.
NothingFound(outcome) == IF outcome.ok THEN outcome.val = <<>> ELSE TRUE

\* get_collection_info reports the collection missing or without chunks.
ReportsEmpty(info) ==
    IF info.ok THEN ~info.val.exists \/ info.val.count = 0 ELSE FALSE

InModelCalls(prompt) ==
    Cardinality({i \in 1..Len(model_calls) : model_calls[i] = prompt})

\* C31: for a question against an empty or missing collection, retrieval
\* sets collection_empty; from then on the run is never sent to
\* rewrite_query, no document is graded relevant, generation runs once, with
\* the first prompt and the no-documents context, verification is skipped as
\* grounded, and the run goes on to save_to_memory and END.
C31_EmptyCollectionIsNoError ==
    /\ node = "retrieve" =>
          \A hybrid \in HybridOutcomes, vector \in VectorOutcomes, info \in CollectionInfos :
              (NothingFound(hybrid) /\ NothingFound(vector) /\ ReportsEmpty(info))
                  => retrieve(state, hybrid, vector, info).collection_empty
    /\ state.collection_empty =>
          /\ node \in {"grade_documents", "generate", "check_hallucination",
                       "save_to_memory", "END", "RAISED"}
          /\ state.retrieved_documents = <<>>
          /\ state.relevant_documents = <<>>
          /\ node = "generate" => CountSteps(GenerationSteps) = 0
          /\ node \in {"check_hallucination", "save_to_memory", "END"} =>
                /\ CountSteps(GenerationSteps) = 1
                /\ InModelCalls("GENERATION_PROMPT") = 1
                /\ InModelCalls("GENERATION_WITH_RETRY_PROMPT") = 0
          /\ node \in {"save_to_memory", "END"} =>
                /\ state.is_grounded
                /\ state.iteration = 1
                /\ CountSteps({"hallucination_skip"}) = 1
                /\ CountSteps(VerificationSteps) = 1

\* A run against an empty collection has ended.
C31_EmptyCollectionAnswered ==
    /\ node = "END"
    /\ state.collection_empty
    /\ state.rewrite_count < state.max_iterations


(***************************************************************************)
(* The order of the dense and the lexical search                           *)
(***************************************************************************)
\* HybridRetriever.search is called: it awaits the dense search; the lexical
\* search has not been started.
HybridSearchCalled ==
    /\ search.at = "idle"
    /\ \E k \in ExpansionKs :
        search' = [at |-> "dense", k |-> k, lexical |-> "not_started"]
    /\ UNCHANGED <<state, node, history, model_calls, stream_vars, _indices, last_op, fusion, tasks>>

\* The dense search returns or raises; the same step of the event loop runs
\* _bm25_search, the single-source shortcuts or the fusion, and the return.
DenseSearchReturns ==
    /\ search.at = "dense"
    /\ \E v \in ExpansionRankings, vp \in DenseProfiles, vector_ok \in BOOLEAN,
          b \in ExpansionRankings, bp \in LexicalProfiles :
        /\ ~vector_ok => (v = <<>> /\ vp = "distance")
        /\ b = <<>> => bp = "falling"
        /\ LET vector == IF vector_ok THEN Ok(Scored(v, vp)) ELSE Raised
               bm25_results == Scored(b, bp)
           IN  search' = [at |-> "fused", k |-> search.k, lexical |-> "done",
                          vector |-> vector, bm25_results |-> bm25_results,
                          results |-> HybridRetriever_search(vector, bm25_results,
                                                             search.k)]
    /\ UNCHANGED <<state, node, history, model_calls, stream_vars, _indices, last_op, fusion, tasks>>

HybridSearchDone ==
    /\ search.at = "fused"
    /\ search' = NoSearch
    /\ UNCHANGED <<state, node, history, model_calls, stream_vars, _indices, last_op, fusion, tasks>>

InitHybrid ==
    /\ state = create_initial_state(<<>>, MaxRetriesBound)
    /\ node = "idle"
    /\ history = <<>>
    /\ model_calls = <<>>
    /\ pc = "idle"
    /\ events = <<>>
    /\ pending = <<>>
    /\ full_answer = <<>>
    /\ received = 0
    /\ RetrieverIdle

NextHybrid ==
    \/ HybridSearchCalled
    \/ DenseSearchReturns
    \/ HybridSearchDone

SpecHybrid == InitHybrid /\ [][NextHybrid]_vars

\* C32 as stated: within one query the dense and the lexical search run
\* concurrently: while the dense search is awaited, the lexical search has
\* been started.
C32_SearchesRunConcurrently ==
    search.at = "dense" => search.lexical # "not_started"

\* C32, amended: the lexical search is started only after the dense search
\* has completed; the fusion takes the completed results of both; a dense
\* search that fails counts as an empty result and the first k lexical
\* results are still returned.
C32_SearchesRunInTurn ==
    /\ search.at = "dense" => search.lexical = "not_started"
    /\ search.at = "fused" =>
          /\ search.lexical = "done"
          /\ ~search.vector.ok => search.results = Take(search.bm25_results, search.k)
          /\ (IF search.vector.ok THEN search.vector.val # <<>> ELSE FALSE) =>
                search.results =
                    IF search.bm25_results = <<>> THEN Take(search.vector.val, search.k)
                    ELSE _rrf_fusion(search.vector.val, search.bm25_results, search.k)

\* The dense search failed and the lexical results were returned.
C32_DenseFailedLexicalReturned ==
    /\ search.at = "fused"
    /\ ~search.vector.ok
    /\ Len(search.bm25_results) >= 2
    /\ search.results # <<>>


(***************************************************************************)
(* The bounds of the two cycles                                            *)
(***************************************************************************)
Rewrites == CountSteps({"query_rewrite"})
Retrievals == CountSteps({"retrieve_hybrid"})
Generations == CountSteps(GenerationSteps)

\* C33: in an aquery run the rewrite_query -> retrieve -> grade_documents
\* cycle and the generate -> check_hallucination cycle are traversed a bounded
\* number of times: at most max_iterations rewrites, at most
\* max_iterations + 1 retrievals and at most max(1, max_iterations)
\* generations.
C33_CyclesBounded ==
    /\ Rewrites <= state.max_iterations
    /\ Retrievals <= state.max_iterations + 1
    /\ Generations <= (IF state.max_iterations >= 1 THEN state.max_iterations ELSE 1)

\* The bounds the runs keep: a query the router sends to rewrite_query is
\* rewritten once whatever the budget is.
CyclesBoundedFromOne ==
    /\ Rewrites <= (IF state.max_iterations >= 1 THEN state.max_iterations ELSE 1)
    /\ Retrievals <= state.max_iterations + 1
    /\ Generations <= (IF state.max_iterations >= 1 THEN state.max_iterations ELSE 1)


(***************************************************************************)
(* astream against the state machine of aquery                             *)
(***************************************************************************)
\* What the graph of aquery guarantees when a RAG query ends: generate was
\* entered with relevant documents, for an empty collection or with the
\* rewrite budget used up, and the run finished grounded or with the retry
\* budget used up.
EndsAsTheGraph(st) ==
    /\ \/ st.relevant_documents # <<>>
       \/ st.collection_empty
       \/ st.rewrite_count >= st.max_iterations
    /\ st.is_grounded \/ st.iteration >= st.max_iterations

\* The graph of aquery ends its RAG queries so.
AqueryEndsAsTheGraph ==
    (node = "END" /\ state.detected_intent \in rag_intents) => EndsAsTheGraph(state)

\* C34: astream follows the state machine of aquery for RAG queries: it
\* rewrites and retrieves again when no document is relevant and rewrite budget
\* remains, and generates again when the answer is not grounded and
\* iteration < max_iterations; so the is_grounded and iterations of the done
\* event are those aquery returns.
C34_StreamFollowsTheGraph ==
    (/\ pc = "closed"
     /\ events # <<>>
     /\ events[Len(events)].type = "done"
     /\ state.detected_intent \in rag_intents) =>
        /\ EndsAsTheGraph(state)
        /\ events[Len(events)].data.is_grounded = state.is_grounded
        /\ events[Len(events)].data.iterations = state.iteration


(***************************************************************************)
(* The tokens of a streamed answer                                         *)
(***************************************************************************)
\* The contents of the token events among evs, joined in the order they were
\* yielded.
RECURSIVE TokenContents(_)
TokenContents(evs) ==
    IF evs = <<>> THEN <<>>
    ELSE (IF Head(evs).type = "token" THEN Head(evs).data ELSE <<>>)
             \o TokenContents(Tail(evs))

StreamIsRag == state.detected_intent \in rag_intents
EndedWithDone == events # <<>> /\ events[Len(events)].type = "done"

\* C35: in a streaming RAG query no token is dropped or reordered: the
\* contents of the token events, joined in order, are the answer accumulated,
\* then verified and saved to the history; done is yielded only after the
\* verification and the two history writes.
C35_TokensAreTheAnswer ==
    StreamIsRag =>
        /\ pc \in {"streaming", "check_hallucination", "save_to_memory"} =>
              TokenContents(events) = full_answer
        /\ pc \in {"check_hallucination", "save_to_memory"} =>
              state.answer = TokenContents(events)
        /\ EndedWithDone =>
              /\ pc = "closed"
              /\ state.answer = TokenContents(events)
              /\ Steps # <<>>
              /\ LastStep \in VerificationSteps
              /\ Len(history) >= 2
              /\ history[Len(history) - 1] = UserTurn(state.question)
              /\ history[Len(history)] = AssistantTurn(TokenContents(events), state.sources)

\* A RAG stream of two tokens has ended with done.
C35_TwoTokensSaved ==
    /\ StreamIsRag
    /\ EndedWithDone
    /\ TokenContents(events) = <<"tok", "en">>
    /\ received = 2


(***************************************************************************)
(* Two queries of one session at save_to_memory                            *)
(***************************************************************************)
\* The two queries, each with the question, the answer and the sources its
\* run has reached save_to_memory with.
SessionQueries == {"q1", "q2"}
QueryQuestion(q) == <<"question of", q>>
QueryAnswer(q) == <<"answer to", q>>
QuerySources == {<<>>, PreviousSources}

\* await self.memory.add_message(role="user", ...): the insert is one
\* statement of the store; the task gives up the event loop at the await, so
\* the other query may run before the second add_message.  An exception of
\* the store leaves save_to_memory.
AddUserMessage(q) ==
    /\ tasks[q].at = "add_user"
    /\ \E ok \in BOOLEAN :
        IF ok
        THEN /\ history' = Append(history, UserTurn(QueryQuestion(q)))
             /\ tasks' = [tasks EXCEPT ![q].at = "add_assistant"]
        ELSE /\ history' = history
             /\ tasks' = [tasks EXCEPT ![q].at = "raised"]
    /\ UNCHANGED <<state, node, model_calls, stream_vars, retriever_vars>>

\* await self.memory.add_message(role="assistant", ..., metadata={"sources"}).
AddAssistantMessage(q) ==
    /\ tasks[q].at = "add_assistant"
    /\ \E ok \in BOOLEAN :
        IF ok
        THEN /\ history' = Append(history,
                               AssistantTurn(QueryAnswer(q), tasks[q].sources))
             /\ tasks' = [tasks EXCEPT ![q].at = "saved"]
        ELSE /\ history' = history
             /\ tasks' = [tasks EXCEPT ![q].at = "raised"]
    /\ UNCHANGED <<state, node, model_calls, stream_vars, retriever_vars>>

InitSession ==
    /\ state = create_initial_state(<<>>, MaxRetriesBound)
    /\ node = "idle"
    /\ history \in Histories
    /\ model_calls = <<>>
    /\ pc = "idle"
    /\ events = <<>>
    /\ pending = <<>>
    /\ full_answer = <<>>
    /\ received = 0
    /\ _indices = EmptyIndices
    /\ last_op = NoOperation
    /\ fusion = NoFusion
    /\ search = NoSearch
    /\ tasks \in [SessionQueries -> [at : {"add_user"}, sources : QuerySources]]

NextSession ==
    \/ \E q \in SessionQueries : AddUserMessage(q)
    \/ \E q \in SessionQueries : AddAssistantMessage(q)

SpecSession == InitSession /\ [][NextSession]_vars

\* The position of the user turn a query wrote, 0 when it wrote none.
UserTurnOf(q) ==
    IF \E i \in 1..Len(history) : history[i] = UserTurn(QueryQuestion(q))
    THEN CHOOSE i \in 1..Len(history) : history[i] = UserTurn(QueryQuestion(q))
    ELSE 0

BothSaved == \A q \in DOMAIN tasks : tasks[q].at = "saved"

\* C36: when two RAG queries of one session run side by side, every user
\* turn written by save_to_memory is immediately followed by the assistant
\* turn of the same query, in every interleaving, so that a context-aware
\* handler that runs afterwards reads the answer that belongs to the most
\* recent question.
C36_TurnsStayPaired ==
    (DOMAIN tasks = SessionQueries /\ BothSaved) =>
        /\ \A q \in SessionQueries :
              /\ UserTurnOf(q) \in 1..(Len(history) - 1)
              /\ history[UserTurnOf(q) + 1] =
                     AssistantTurn(QueryAnswer(q), tasks[q].sources)
        /\ LET context == _get_conversation_context(ReadHistory(history, 4, TRUE))
           IN  \E q \in SessionQueries :
                   /\ context.last_question = QueryQuestion(q)
                   /\ context.last_answer = QueryAnswer(q)


(***************************************************************************)
(* The delete paths and the lexical index                                  *)
(***************************************************************************)
\* What a delete path did last: deleted is deleted_count > 0 of
\* vector_store.delete_by_metadata, which returns 0 when it fails.
Deletion(op, via, c, doc_id, deleted, raised) ==
    [op |-> op, via |-> via, collection |-> c, doc_id |-> doc_id,
     deleted |-> deleted, raised |-> raised]

\* IngestionService.delete_document: the chunks are deleted from the vector
\* store, then, when some were deleted, the doc_id is removed from the index.
ServiceDeleteDocument ==
    /\ \E c \in Collections, doc_id \in DocIdValues, deleted \in BOOLEAN,
          lib_ok \in BOOLEAN :
        LET out == IF deleted
                   THEN remove_from_bm25_index(_indices, c, {doc_id}, lib_ok)
                   ELSE Ok(_indices)
            remaining_docs == RemainingDocs(IndexOf(_indices, c).documents, {doc_id})
        IN  /\ (~deleted \/ ~BuildReadsLibrary(remaining_docs)) => lib_ok
            /\ Apply(out)
            /\ last_op' = Deletion("delete_document", "service", c, doc_id,
                                   deleted, ~out.ok)
    /\ UNCHANGED <<state, node, history, model_calls, stream_vars, fusion, search, tasks>>

\* DELETE /{chat_id}/documents/{doc_id}: the chunks are deleted from the
\* vector store; the route does not touch the retriever.
RouteDeleteDocument ==
    /\ \E c \in Collections, doc_id \in DocIdValues, deleted \in BOOLEAN :
        last_op' = Deletion("delete_document", "chat_route", c, doc_id, deleted, FALSE)
    /\ UNCHANGED <<state, node, history, model_calls, stream_vars, _indices, fusion, search, tasks>>

\* IngestionService.delete_collection: the collection is deleted from the
\* vector store and the index of the collection is cleared.
ServiceDeleteCollection ==
    /\ \E c \in Collections :
        /\ _indices' = clear_bm25_index(_indices, c)
        /\ last_op' = Deletion("delete_collection", "service", c, None, TRUE, FALSE)
    /\ UNCHANGED <<state, node, history, model_calls, stream_vars, fusion, search, tasks>>

\* DELETE /chat/{chat_id} and DELETE /collections/{collection_name}: the
\* collection is deleted from the vector store (and the history of the chat
\* is cleared); the routes do not touch the retriever.
RouteDeleteCollection ==
    /\ \E c \in Collections, via \in {"chat_route", "collections_route"} :
        last_op' = Deletion("delete_collection", via, c, None, TRUE, FALSE)
    /\ UNCHANGED <<state, node, history, model_calls, stream_vars, _indices, fusion, search, tasks>>

NextDelete ==
    \/ AddToIndex
    \/ ServiceDeleteDocument
    \/ RouteDeleteDocument
    \/ ServiceDeleteCollection
    \/ RouteDeleteCollection

SpecDelete == InitIndex /\ [][NextDelete]_vars

\* The chunks a lexical search on collection c can return.
Searchable(c) ==
    UNION {{r.document : r \in Range(_bm25_search(_indices, q, c, k).val)} :
              q \in IndexQueries, k \in SearchKs}

\* C37: the lexical index of a collection never outlives the chunks it
\* indexes: after a document was deleted through any delete path the lexical
\* search returns none of its chunks, and after a collection or a chat was
\* deleted the lexical search on its collection returns an empty list.
C37_IndexFollowsDeletes ==
    /\ (last_op.op = "delete_document" /\ last_op.deleted /\ ~last_op.raised) =>
          \A d \in Searchable(last_op.collection) : d.doc_id # last_op.doc_id
    /\ last_op.op = "delete_collection" =>
          \A q \in IndexQueries, k \in SearchKs :
              _bm25_search(_indices, q, last_op.collection, k) = Ok(<<>>)

\* The paths of IngestionService keep the index in step with the deletes.
ServicePathsFollowDeletes ==
    (last_op.op \in {"delete_document", "delete_collection"} /\ last_op.via # "service")
        \/ C37_IndexFollowsDeletes


(***************************************************************************)
(* The range of the groundedness score                                     *)
(***************************************************************************)
\* C38: in every final state of a query the groundedness_score, returned as
\* confidence by the non-streaming reply, lies in [0, 1] (0..100 in
\* hundredths), on every verification path.
C38_ScoreInUnitInterval ==
    node = "END" => state.groundedness_score \in 0..100

\* The score stays in [0, 1] on every path that does not read the score from
\* the model's verdict.
ScoreInUnitIntervalWithoutVerdict ==
    (node = "END" /\ Steps # <<>> /\ "hallucination_llm_check" \notin Range(Steps))
        => state.groundedness_score \in 0..100


(***************************************************************************)
(* Min-max normalisation and the simple high-confidence skip               *)
(***************************************************************************)
\* The logits of the candidates the reranker is given: those of the documents
\* the context filter kept (all of them when the filter failed).
CandidateLogits(st, keep, scored) ==
    LET n == Len(st.retrieved_documents)
        kept == IF keep.ok THEN IndicesIn(n, keep.val) ELSE [i \in 1..n |-> i]
    IN  [i \in 1..Len(kept) |-> scored.val[kept[i]]]

\* The reranker ranks two or more candidates whose raw scores differ.
RanksUnequal(st, keep, scored) ==
    IF scored.ok
    THEN LET logits == CandidateLogits(st, keep, scored)
         IN  Len(logits) >= 2 /\ SeqMin(logits) < SeqMax(logits)
    ELSE FALSE

\* C39: when the cross-encoder reranks two or more candidates whose raw
\* scores are not all equal, the top relevant document gets the
\* relevance_score 100; a simple query whose top relevant document has that
\* score takes the simple high-confidence skip and ends grounded after one
\* generation, whatever the answer is.
C39_MinMaxForcesGrounded ==
    /\ node = "grade_documents" =>
          \A keep \in KeepOutcomes(Len(state.retrieved_documents)),
             scored \in RerankOutcomes(Len(state.retrieved_documents)) :
              RanksUnequal(state, keep, scored) =>
                  LET graded == grade_documents(state, keep, scored)
                  IN  /\ graded.relevant_documents # <<>>
                      /\ graded.relevant_documents[1].relevance_score = 100
                      /\ TopScore(graded.relevant_documents) = 100
    /\ (/\ state.query_complexity = "simple"
        /\ Steps # <<>>
        /\ "grade_reranker" \in Range(Steps)
        /\ TopScore(state.relevant_documents) = 100) =>
          /\ node = "check_hallucination" => SkipsForSimpleHighConfidence(state)
          /\ node \in {"save_to_memory", "END"} =>
                /\ state.is_grounded
                /\ state.groundedness_score = 100
                /\ state.skip_llm_hallucination_check
                /\ CountSteps({"hallucination_skip_simple_highconf"}) = 1
                /\ CountSteps(VerificationSteps) = 1
                /\ CountSteps(GenerationSteps) = 1

\* A simple query with two reranked documents ended grounded by the skip,
\* with an empty answer.
C39_SkippedWithEmptyAnswer ==
    /\ node = "END"
    /\ state.query_complexity = "simple"
    /\ "grade_reranker" \in Range(Steps)
    /\ Len(state.relevant_documents) = 2
    /\ state.relevant_documents[1].relevance_score = 100
    /\ state.relevant_documents[2].relevance_score = 0
    /\ state.answer = EMPTY_TEXT
    /\ state.is_grounded


(***************************************************************************)
(* IngestionService: two jobs created with asyncio.create_task             *)
(***************************************************************************)
\* The two jobs; _process_file stamps every chunk of a job with the job's
\* document_id (a fresh uuid4 unless one is given).
IngestJobs == {"job1", "job2"}
JobDocId(j) == IF j = "job1" THEN "d1" ELSE "d2"
JobChunkLists(j) ==
    {[i \in 1..Len(l) |-> Chunk(l[i].page_content, JobDocId(j))] : l \in ChunkLists}

\* _process_file up to its first await: the file is loaded and chunked, the
\* metadata set, and vector_store.add_documents is awaited.
ProcessFileStarts(j) ==
    /\ tasks[j].at = "queued"
    /\ tasks' = [tasks EXCEPT ![j].at = "add_documents"]
    /\ UNCHANGED <<state, node, history, model_calls, stream_vars,
                   _indices, last_op, fusion, search>>

\* The await of add_documents is over.  When it raised, the job is FAILED
\* with the error; otherwise _update_bm25_index runs, which has no await of
\* its own: retriever.add_to_bm25_index reads the index, concatenates and
\* builds in one step of the event loop; an exception of the build is
\* appended to job.errors and the job is COMPLETED all the same.
AddDocumentsReturns(j) ==
    /\ tasks[j].at = "add_documents"
    /\ \E stored \in BOOLEAN, lib_ok \in BOOLEAN :
        LET c == tasks[j].collection_name
            out == add_to_bm25_index(_indices, c, tasks[j].chunks, lib_ok)
            all_docs == IndexOf(_indices, c).documents \o tasks[j].chunks
        IN  IF ~stored
            THEN /\ lib_ok
                 /\ _indices' = _indices
                 /\ tasks' = [tasks EXCEPT ![j].at = "failed", ![j].errors = 1]
            ELSE /\ ~BuildReadsLibrary(all_docs) => lib_ok
                 /\ Apply(out)
                 /\ tasks' = [tasks EXCEPT ![j].at = "completed",
                                           ![j].errors = IF out.ok THEN 0 ELSE 1]
    /\ UNCHANGED <<state, node, history, model_calls, stream_vars,
                   last_op, fusion, search>>

InitJobs ==
    /\ state = create_initial_state(<<>>, MaxRetriesBound)
    /\ node = "idle"
    /\ history = <<>>
    /\ model_calls = <<>>
    /\ pc = "idle"
    /\ events = <<>>
    /\ pending = <<>>
    /\ full_answer = <<>>
    /\ received = 0
    /\ _indices = EmptyIndices
    /\ last_op = NoOperation
    /\ fusion = NoFusion
    /\ search = NoSearch
    /\ \E c1, c2 \in Collections, l1 \in JobChunkLists("job1"),
          l2 \in JobChunkLists("job2") :
        tasks = [j \in IngestJobs |->
                    [at |-> "queued", errors |-> 0,
                     collection_name |-> IF j = "job1" THEN c1 ELSE c2,
                     chunks |-> IF j = "job1" THEN l1 ELSE l2]]

NextJobs ==
    \/ \E j \in IngestJobs : ProcessFileStarts(j)
    \/ \E j \in IngestJobs : AddDocumentsReturns(j)

SpecJobs == InitJobs /\ [][NextJobs]_vars

JobsOver == \A j \in IngestJobs : tasks[j].at \in {"completed", "failed"}
Indexed(j) == tasks[j].at = "completed" /\ tasks[j].errors = 0

\* How many times chunk d stands in the index of collection c.
TimesIndexed(c, d) ==
    LET documents == IndexOf(_indices, c).documents
    IN  Cardinality({i \in 1..Len(documents) : documents[i] = d})

\* C40: when two ingestion jobs run side by side, in every interleaving of
\* their awaited steps no update of the lexical index is lost: once both jobs
\* are over, every chunk of a job that completed without an error stands
\* exactly once in the index of the job's collection, the index holds nothing
\* but such chunks, and its scorer is built from exactly its documents.
C40_NoIndexUpdateLost ==
    (DOMAIN tasks = IngestJobs /\ JobsOver) =>
        /\ \A j \in IngestJobs : Indexed(j) =>
              \A i \in 1..Len(tasks[j].chunks) :
                  TimesIndexed(tasks[j].collection_name, tasks[j].chunks[i]) = 1
        /\ \A c \in DOMAIN _indices :
              /\ OneBuild(_indices[c])
              /\ \A d \in Range(_indices[c].documents) :
                    \E j \in IngestJobs :
                        /\ Indexed(j)
                        /\ tasks[j].collection_name = c
                        /\ d \in Range(tasks[j].chunks)

\* Both jobs wrote chunks to one collection, job2 first although job1 was
\* the first to await, and both completed without an error.
C40_BothJobsIndexed ==
    /\ DOMAIN tasks = IngestJobs /\ JobsOver
    /\ \A j \in IngestJobs : Indexed(j) /\ tasks[j].chunks # <<>>
    /\ tasks["job1"].collection_name = tasks["job2"].collection_name
    /\ LET documents == IndexOf(_indices, tasks["job1"].collection_name).documents
       IN  /\ Len(documents) = Len(tasks["job1"].chunks) + Len(tasks["job2"].chunks)
           /\ documents[1].doc_id = JobDocId("job2")
           /\ documents[Len(documents)].doc_id = JobDocId("job1")
====
